---- MODULE Spec2Model ----
(***************************************************************************)
(* SmartComptable Pro: identity resolution (session + long-lived cookie),  *)
(* subscriptions, the administrator login and the expense store, as a      *)
(* state machine.                                                          *)
(*                                                                         *)
(* One rerun of main() is two consecutive steps: Resolve (the session /    *)
(* cookie reconciliation and the dispatch on the session) and then the     *)
(* handler of the page the dispatch selected.  Time is counted in days.    *)
(* Text is a sequence of one-character strings.  An optional value is a    *)
(* sequence of length 0 (Python None, key absent, SQL NULL) or 1.          *)
(***************************************************************************)
EXTENDS Integers, Sequences, FiniteSets, TLC

VARIABLES
    now,            \* the clock, in days
    admin_email,    \* st.session_state.admin_email (optional)
    user_email,     \* st.session_state.user_email (optional)
    cookie,         \* the client's smartcomptable_auth cookie (optional)
    subscriptions,  \* the subscriptions table
    pc,             \* position in main(): "resolve" or "page"
    identity,       \* the identity the current rerun acts as
    log,            \* what the last step did
    granted,        \* per email, time and length of the last successful grant
    expenses,       \* the expenses table: its rows, in rowid order
    categories,     \* the categories table: its rows, in id order
    call,           \* the last DatabaseManager call: arguments, result, store before
    conns,          \* per concurrent caller, the state of its delete_expense call
    lock,           \* the caller holding SQLite's write lock (optional)
    widgets         \* the widgets of the admin panel's data tab, as the browser holds them

storeVars == <<expenses, categories, call, conns, lock, widgets>>

vars == <<now, admin_email, user_email, cookie, subscriptions, pc, identity, log,
          granted, expenses, categories, call, conns, lock, widgets>>

(***************************************************************************)
(* Bounds of the model.                                                    *)
(***************************************************************************)
\* the expenses table holds at most MaxRows rows
MaxRows == 2

MaxGrantTime == 1
MaxHandles == 2

(***************************************************************************)
(* Program constants.                                                      *)
(***************************************************************************)
TrialDays == 30
DefaultCookieDays == 30

None == <<>>
Some(x) == <<x>>

Sep == "|"
Digits == <<"0", "1", "2", "3", "4", "5", "6", "7", "8", "9">>
DigitSet == {Digits[i] : i \in 1..10}
DigitValue(c) == (CHOOSE i \in 1..10 : Digits[i] = c) - 1

EmailA == <<"a", "@">>
EmailB == <<"b", "|", "@">>
EmptyText == <<>>
TextInputs == {EmptyText, EmailA, EmailB}
Emails == {EmailA, EmailB}
AdminDayInputs == {1, 30}

(***************************************************************************)
(* The days at which the clock is observed: the days on which grants are   *)
(* made and the day after, and the same days one trial period later.       *)
(***************************************************************************)
Instants == (0..(MaxGrantTime + 1)) \cup {TrialDays + k : k \in 0..(MaxGrantTime + 1)}

AdminAccount == "admin@smartcomptable.com"

(***************************************************************************)
(* datetime.isoformat / datetime.fromisoformat on day counts: a timestamp  *)
(* is written as two decimal digits; any other text is a ValueError.       *)
(***************************************************************************)
isoformat(t) == <<Digits[(t \div 10) + 1], Digits[(t % 10) + 1]>>

fromisoformat(s) ==
    IF Len(s) = 2 /\ s[1] \in DigitSet /\ s[2] \in DigitSet
    THEN [ok |-> TRUE, value |-> 10 * DigitValue(s[1]) + DigitValue(s[2])]
    ELSE [ok |-> FALSE, value |-> 0]

(***************************************************************************)
(* str.split("|", 1): the text before and after the FIRST separator, or    *)
(* the whole text as a single part when there is none.                     *)
(***************************************************************************)
HasSep(s) == \E i \in 1..Len(s) : s[i] = Sep
FirstSep(s) == CHOOSE i \in 1..Len(s) : s[i] = Sep /\ \A j \in 1..(i - 1) : s[j] # Sep
split1(s) ==
    IF HasSep(s)
    THEN <<SubSeq(s, 1, FirstSep(s) - 1), SubSeq(s, FirstSep(s) + 1, Len(s))>>
    ELSE <<s>>

(***************************************************************************)
(* The client-side cookie store (CookieManager) holding the one cookie     *)
(* "smartcomptable_auth": absent, or a value with an expiry attribute.     *)
(* delete removes the cookie; it raises (KeyError) only when asked to      *)
(* delete a cookie the store does not hold.                                *)
(***************************************************************************)
CookieSet(val, expires_at) == Some([val |-> val, expires_at |-> expires_at])

CookieDelete(c, fault) ==
    IF c = None /\ fault
    THEN [cookie |-> c, raised |-> TRUE]
    ELSE [cookie |-> None, raised |-> FALSE]

(***************************************************************************)
(* set_auth_cookie(email, days_expire)                                     *)
(***************************************************************************)
set_auth_cookie(email, days_expire, t) ==
    LET expire_date == t + days_expire
        cookie_value == email \o <<Sep>> \o isoformat(expire_date)
    IN  CookieSet(cookie_value, expire_date)

(***************************************************************************)
(* Variant of get_auth_cookie that still accepts a cookie on its expiry    *)
(* day (<= instead of <).                                                  *)
(***************************************************************************)
get_auth_cookie_le(c, t, readFault) ==
    IF readFault
    THEN [email |-> None, cookie |-> c, raised |-> FALSE]
    ELSE IF c = None \/ c[1].val = EmptyText
    THEN [email |-> None, cookie |-> c, raised |-> FALSE]
    ELSE LET parts == split1(c[1].val) IN
         IF Len(parts) # 2
         THEN [email |-> None, cookie |-> c, raised |-> FALSE]
         ELSE LET expire_date == fromisoformat(parts[2]) IN
              IF ~expire_date.ok
              THEN [email |-> None, cookie |-> c, raised |-> FALSE]
              ELSE IF t <= expire_date.value
              THEN [email |-> Some(parts[1]), cookie |-> c, raised |-> FALSE]
              ELSE [email |-> None, cookie |-> CookieDelete(c, FALSE).cookie,
                    raised |-> FALSE]

(***************************************************************************)
(* Variant of get_auth_cookie that takes a cookie without a separator as   *)
(* a bare email that never expires.                                        *)
(***************************************************************************)
get_auth_cookie_nosep(c, t, readFault) ==
    IF readFault
    THEN [email |-> None, cookie |-> c, raised |-> FALSE]
    ELSE IF c = None \/ c[1].val = EmptyText
    THEN [email |-> None, cookie |-> c, raised |-> FALSE]
    ELSE LET parts == split1(c[1].val) IN
         IF Len(parts) # 2
         THEN [email |-> Some(parts[1]), cookie |-> c, raised |-> FALSE]
         ELSE LET expire_date == fromisoformat(parts[2]) IN
              IF ~expire_date.ok
              THEN [email |-> None, cookie |-> c, raised |-> FALSE]
              ELSE IF t < expire_date.value
              THEN [email |-> Some(parts[1]), cookie |-> c, raised |-> FALSE]
              ELSE [email |-> None, cookie |-> CookieDelete(c, FALSE).cookie,
                    raised |-> FALSE]

(***************************************************************************)
(* get_auth_cookie(): the email of a valid cookie, else None.  An expired  *)
(* cookie is deleted; a malformed one (ValueError) is left in place.  Any  *)
(* exception of the store read is caught: raised is always FALSE.          *)
(***************************************************************************)
get_auth_cookie(c, t, readFault) ==
    IF readFault
    THEN [email |-> None, cookie |-> c, raised |-> FALSE]
    ELSE IF c = None \/ c[1].val = EmptyText
    THEN [email |-> None, cookie |-> c, raised |-> FALSE]
    ELSE LET parts == split1(c[1].val) IN
         IF Len(parts) # 2
         THEN [email |-> None, cookie |-> c, raised |-> FALSE]
         ELSE LET expire_date == fromisoformat(parts[2]) IN
              IF ~expire_date.ok
              THEN [email |-> None, cookie |-> c, raised |-> FALSE]
              ELSE IF t < expire_date.value
              THEN [email |-> Some(parts[1]), cookie |-> c, raised |-> FALSE]
              ELSE [email |-> None, cookie |-> CookieDelete(c, FALSE).cookie,
                    raised |-> FALSE]

(***************************************************************************)
(* Variant of delete_auth_cookie that removes the cookie only when its     *)
(* value parses as email|expiry.                                           *)
(***************************************************************************)
delete_auth_cookie_valid_only(c, delFault) ==
    IF c # None /\ (Len(split1(c[1].val)) # 2
                    \/ ~fromisoformat(split1(c[1].val)[2]).ok)
    THEN [cookie |-> c, storeRaised |-> FALSE, raised |-> FALSE]
    ELSE LET d == CookieDelete(c, delFault)
         IN  [cookie |-> d.cookie, storeRaised |-> d.raised, raised |-> FALSE]

(***************************************************************************)
(* delete_auth_cookie(): an exception of the store is caught.              *)
(***************************************************************************)
\* variant of delete_auth_cookie that leaves the token where it is
delete_auth_cookie_keeps(c, delFault) ==
    [cookie |-> c, storeRaised |-> FALSE, raised |-> FALSE]

delete_auth_cookie(c, delFault) ==
    LET d == CookieDelete(c, delFault)
    IN  [cookie |-> d.cookie, storeRaised |-> d.raised, raised |-> FALSE]

(***************************************************************************)
(* The subscriptions table: a function from the emails that have a row to  *)
(* rows [subscription_end (optional ISO text), is_admin (0 or 1)].         *)
(***************************************************************************)
NoRows == [e \in {} |-> 0]
Upsert(subs, email, row) ==
    [e \in (DOMAIN subs) \cup {email} |-> IF e = email THEN row ELSE subs[e]]

(***************************************************************************)
(* Variant of is_subscribed that answers True when the lookup fails.       *)
(***************************************************************************)
is_subscribed_failopen(subs, email, t, dbFault) ==
    IF dbFault
    THEN [result |-> TRUE, raised |-> FALSE]
    ELSE IF email \in DOMAIN subs /\ subs[email].subscription_end # None
                                  /\ subs[email].subscription_end[1] # EmptyText
    THEN LET end_date == fromisoformat(subs[email].subscription_end[1]) IN
         IF end_date.ok
         THEN [result |-> t < end_date.value, raised |-> FALSE]
         ELSE [result |-> FALSE, raised |-> FALSE]
    ELSE [result |-> FALSE, raised |-> FALSE]

(***************************************************************************)
(* Variant of is_subscribed that is still True on the end day (<=).        *)
(***************************************************************************)
is_subscribed_le(subs, email, t, dbFault) ==
    IF dbFault
    THEN [result |-> FALSE, raised |-> FALSE]
    ELSE IF email \in DOMAIN subs /\ subs[email].subscription_end # None
                                  /\ subs[email].subscription_end[1] # EmptyText
    THEN LET end_date == fromisoformat(subs[email].subscription_end[1]) IN
         IF end_date.ok
         THEN [result |-> t <= end_date.value, raised |-> FALSE]
         ELSE [result |-> FALSE, raised |-> FALSE]
    ELSE [result |-> FALSE, raised |-> FALSE]

(***************************************************************************)
(* SubscriptionManager.is_subscribed(email): any exception (storage error, *)
(* unparsable text) is caught and gives False.                             *)
(***************************************************************************)
is_subscribed(subs, email, t, dbFault) ==
    IF dbFault
    THEN [result |-> FALSE, raised |-> FALSE]
    ELSE IF email \in DOMAIN subs /\ subs[email].subscription_end # None
                                  /\ subs[email].subscription_end[1] # EmptyText
    THEN LET end_date == fromisoformat(subs[email].subscription_end[1]) IN
         IF end_date.ok
         THEN [result |-> t < end_date.value, raised |-> FALSE]
         ELSE [result |-> FALSE, raised |-> FALSE]
    ELSE [result |-> FALSE, raised |-> FALSE]

(***************************************************************************)
(* SubscriptionManager.get_subscription_end_date(email)                    *)
(***************************************************************************)
get_subscription_end_date(subs, email, dbFault) ==
    IF dbFault
    THEN None
    ELSE IF email \in DOMAIN subs /\ subs[email].subscription_end # None
                                  /\ subs[email].subscription_end[1] # EmptyText
    THEN LET end_date == fromisoformat(subs[email].subscription_end[1]) IN
         IF end_date.ok THEN Some(end_date.value) ELSE None
    ELSE None

(***************************************************************************)
(* Variant of grant_free_subscription whose end date is one day late.      *)
(***************************************************************************)
grant_free_subscription_late(subs, email, days, granted_by_admin, t, dbFault) ==
    IF dbFault
    THEN [ok |-> FALSE, subs |-> subs]
    ELSE LET end_date == t + days + 1 IN
         [ok |-> TRUE,
          subs |-> Upsert(subs, email,
                      [subscription_end |-> Some(isoformat(end_date)),
                       is_admin |-> IF granted_by_admin THEN 1 ELSE 0])]

(***************************************************************************)
(* Variant of grant_free_subscription that keeps an administrator mark the *)
(* row already carried.                                                    *)
(***************************************************************************)
grant_free_subscription_keeps_admin(subs, email, days, granted_by_admin, t, dbFault) ==
    IF dbFault
    THEN [ok |-> FALSE, subs |-> subs]
    ELSE LET end_date == t + days IN
         [ok |-> TRUE,
          subs |-> Upsert(subs, email,
                      [subscription_end |-> Some(isoformat(end_date)),
                       is_admin |-> IF granted_by_admin
                                       \/ (email \in DOMAIN subs /\ subs[email].is_admin # 0)
                                    THEN 1 ELSE 0])]

(***************************************************************************)
(* SubscriptionManager.grant_free_subscription(email, days, granted_by_    *)
(* admin): INSERT OR REPLACE of the whole row; rolled back on an error.    *)
(***************************************************************************)
\* variant of grant_free_subscription that marks every recipient as
\* administrator, whatever granted_by_admin says
grant_free_subscription_marks_admin(subs, email, days, granted_by_admin, t, dbFault) ==
    IF dbFault
    THEN [ok |-> FALSE, subs |-> subs]
    ELSE LET end_date == t + days IN
         [ok |-> TRUE,
          subs |-> Upsert(subs, email,
                      [subscription_end |-> Some(isoformat(end_date)),
                       is_admin |-> 1])]

grant_free_subscription(subs, email, days, granted_by_admin, t, dbFault) ==
    IF dbFault
    THEN [ok |-> FALSE, subs |-> subs]
    ELSE LET end_date == t + days IN
         [ok |-> TRUE,
          subs |-> Upsert(subs, email,
                      [subscription_end |-> Some(isoformat(end_date)),
                       is_admin |-> IF granted_by_admin THEN 1 ELSE 0])]

(***************************************************************************)
(* Variant of add_admin that replaces the whole row, as the grant does.    *)
(***************************************************************************)
add_admin_replace(subs, email, dbFault) ==
    IF dbFault
    THEN [ok |-> FALSE, subs |-> subs]
    ELSE [ok |-> TRUE,
          subs |-> Upsert(subs, email, [subscription_end |-> None, is_admin |-> 1])]

(***************************************************************************)
(* SubscriptionManager.add_admin(email): a SELECT for the row, then an     *)
(* UPDATE of is_admin alone, or an INSERT of (email, is_admin = 1) whose   *)
(* subscription_end is left NULL.                                          *)
(***************************************************************************)
add_admin(subs, email, dbFault) ==
    IF dbFault
    THEN [ok |-> FALSE, subs |-> subs]
    ELSE IF email \in DOMAIN subs
    THEN [ok |-> TRUE, subs |-> [subs EXCEPT ![email].is_admin = 1]]
    ELSE [ok |-> TRUE,
          subs |-> Upsert(subs, email, [subscription_end |-> None, is_admin |-> 1])]

(***************************************************************************)
(* SubscriptionManager.is_admin(email)                                     *)
(***************************************************************************)
is_admin(subs, email, dbFault) ==
    IF dbFault THEN FALSE
    ELSE email \in DOMAIN subs /\ subs[email].is_admin # 0

(***************************************************************************)
(* AuthManager.  A byte is a literal character or the k-th byte of the     *)
(* digest of a byte string (digests are taken to be collision-free).  A    *)
(* stored hash is a text: its format, the bytes it encodes, the number of  *)
(* stray characters outside the base64 alphabet that it carries, and       *)
(* whether its base64 padding is correct.                                  *)
(***************************************************************************)
DigestSize == 32
SaltSize == 16
BcryptMaxBytes == 72

Byte(c) == [v |-> c, d |-> <<>>, k |-> 0]
Bytes(s) == [i \in 1..Len(s) |-> Byte(s[i])]

\* str.encode('utf-8') of a text typed into the password field
encode(text) == Bytes(text)

\* hashlib.sha256(m).digest()
sha256(m) == [i \in 1..DigestSize |-> [v |-> "", d |-> m, k |-> i]]

\* base64.b64encode and base64.b64decode: decoding drops the characters
\* outside the alphabet and raises on wrong padding (or a text that is not
\* base64 at all)
b64encode(bytes) ==
    [format |-> "b64", payload |-> bytes, stray |-> 0, padding_ok |-> TRUE]
b64decode(text) ==
    IF text.format = "b64" /\ text.padding_ok
    THEN [raised |-> FALSE, bytes |-> text.payload]
    ELSE [raised |-> TRUE, bytes |-> <<>>]

\* Python slices: the last n and the first n bytes
LastBytes(b, n) == IF Len(b) <= n THEN b ELSE SubSeq(b, Len(b) - n + 1, Len(b))
FirstBytes(b, n) == IF Len(b) <= n THEN b ELSE SubSeq(b, 1, n)

AdminPasswordText == <<"a", "d", "m", "i", "n", "1", "2", "3">>
AdminPassword == Bytes(AdminPasswordText)
LongPrefix == [i \in 1..BcryptMaxBytes |-> "x"]
PasswordInputs ==
    {AdminPasswordText, <<"w", "r", "o", "n", "g">>,
     LongPrefix \o <<"a">>, LongPrefix \o <<"b">>}
DemoSaltKey ==
    Bytes(<<"d", "e", "m", "o", "_", "s", "a", "l", "t", "_", "k", "e", "y", "_",
            "2", "0", "2", "4">>)
Salt0 == [i \in 1..SaltSize |-> Byte("s")]
Salt1 == [i \in 1..SaltSize |-> Byte("t")]
Salts == {Salt0, Salt1}

\* the builds: bcrypt missing (BCRYPT_AVAILABLE False), a bcrypt that cuts a
\* password after 72 bytes, a bcrypt that refuses a longer one (5.0 and later)
Builds == {"fallback", "bcrypt_truncating", "bcrypt_strict"}

\* bcrypt.hashpw(password, salt): the salt followed by the digest of the
\* salt and the first 72 bytes of the password
bcrypt_hashpw(password, salt, build) ==
    IF Len(password) > BcryptMaxBytes /\ build = "bcrypt_strict"
    THEN [raised |-> TRUE,
          hashed |-> [format |-> "none", payload |-> <<>>, stray |-> 0,
                      padding_ok |-> FALSE]]
    ELSE [raised |-> FALSE,
          hashed |-> [format |-> "bcrypt",
                      payload |-> salt \o sha256(salt \o FirstBytes(password,
                                                                   BcryptMaxBytes)),
                      stray |-> 0, padding_ok |-> TRUE]]

\* bcrypt.checkpw(password, hashed): ValueError for a text that is not a
\* bcrypt hash
bcrypt_checkpw(password, hashed, build) ==
    IF \/ hashed.format # "bcrypt" \/ hashed.stray # 0
       \/ Len(hashed.payload) # SaltSize + DigestSize
       \/ (Len(password) > BcryptMaxBytes /\ build = "bcrypt_strict")
    THEN [raised |-> TRUE, result |-> FALSE]
    ELSE [raised |-> FALSE,
          result |-> bcrypt_hashpw(password, FirstBytes(hashed.payload, SaltSize),
                                   build).hashed = hashed]

(***************************************************************************)
(* AuthManager._hash_password(password): bcrypt when it is available,      *)
(* else base64(sha256(password + key + salt) + salt) with a fresh 16-byte  *)
(* salt.  An exception is not caught.                                      *)
(***************************************************************************)
_hash_password(password, salt, build) ==
    IF build # "fallback"
    THEN bcrypt_hashpw(password, salt, build)
    ELSE LET combined == password \o DemoSaltKey \o salt
         IN  [raised |-> FALSE, hashed |-> b64encode(sha256(combined) \o salt)]

(***************************************************************************)
(* AuthManager.checkpw(password, hashed): bcrypt.checkpw, or the digest    *)
(* recomputed with the last 16 bytes of the decoded text as salt and       *)
(* compared with its first 32 bytes.  Any exception gives False.           *)
(***************************************************************************)
checkpw(password, hashed, build) ==
    IF build # "fallback"
    THEN LET c == bcrypt_checkpw(password, hashed, build)
         IN  IF c.raised THEN FALSE ELSE c.result
    ELSE LET decoded == b64decode(hashed) IN
         IF decoded.raised THEN FALSE
         ELSE LET decoded_hash == decoded.bytes
                  salt == LastBytes(decoded_hash, SaltSize)
                  combined == password \o DemoSaltKey \o salt
                  computed_hash == sha256(combined)
              IN  FirstBytes(decoded_hash, DigestSize) = computed_hash

admin_password_hash(build) == _hash_password(AdminPassword, Salt0, build).hashed

\* variant of authenticate_admin that lets every password in
authenticate_admin_any(password, build) == TRUE

authenticate_admin(password, build) ==
    checkpw(encode(password), admin_password_hash(build), build)

(***************************************************************************)
(* Variant of main_resolution that leaves the cookie of an unsubscribed    *)
(* email in place.                                                         *)
(***************************************************************************)
main_resolution_keeps_cookie(user, c, subs, t, readFault, dbFault, delFault) ==
    IF user # None
    THEN [user_email |-> user, cookie |-> c, read |-> FALSE, checked |-> FALSE,
          subscribed |-> FALSE, revoked |-> FALSE, delRaised |-> FALSE,
          escaped |-> FALSE]
    ELSE LET g == get_auth_cookie(c, t, readFault) IN
         IF g.email # None /\ g.email[1] # EmptyText
         THEN LET cookie_email == g.email[1]
                  s == is_subscribed(subs, cookie_email, t, dbFault)
              IN  IF s.result
                  THEN [user_email |-> Some(cookie_email), cookie |-> g.cookie,
                        read |-> TRUE, checked |-> TRUE, subscribed |-> TRUE,
                        revoked |-> FALSE, delRaised |-> FALSE,
                        escaped |-> g.raised \/ s.raised]
                  ELSE [user_email |-> user, cookie |-> g.cookie,
                        read |-> TRUE, checked |-> TRUE, subscribed |-> FALSE,
                        revoked |-> FALSE, delRaised |-> FALSE,
                        escaped |-> g.raised \/ s.raised]
         ELSE [user_email |-> user, cookie |-> g.cookie, read |-> TRUE,
               checked |-> FALSE, subscribed |-> FALSE, revoked |-> FALSE,
               delRaised |-> FALSE, escaped |-> g.raised]

(***************************************************************************)
(* Variant of main_resolution that re-validates the subscription of an     *)
(* email already bound in the session and unbinds a lapsed one.            *)
(***************************************************************************)
main_resolution_rechecks(user, c, subs, t, readFault, dbFault, delFault) ==
    IF user # None
    THEN LET s == is_subscribed(subs, user[1], t, dbFault) IN
         [user_email |-> IF s.result THEN user ELSE None, cookie |-> c,
          read |-> FALSE, checked |-> TRUE, subscribed |-> s.result,
          revoked |-> FALSE, delRaised |-> FALSE, escaped |-> s.raised]
    ELSE LET g == get_auth_cookie(c, t, readFault) IN
         IF g.email # None /\ g.email[1] # EmptyText
         THEN LET cookie_email == g.email[1]
                  s == is_subscribed(subs, cookie_email, t, dbFault)
              IN  IF s.result
                  THEN [user_email |-> Some(cookie_email), cookie |-> g.cookie,
                        read |-> TRUE, checked |-> TRUE, subscribed |-> TRUE,
                        revoked |-> FALSE, delRaised |-> FALSE,
                        escaped |-> g.raised \/ s.raised]
                  ELSE LET d == delete_auth_cookie(g.cookie, delFault) IN
                       [user_email |-> user, cookie |-> d.cookie,
                        read |-> TRUE, checked |-> TRUE, subscribed |-> FALSE,
                        revoked |-> TRUE, delRaised |-> d.storeRaised,
                        escaped |-> g.raised \/ s.raised \/ d.raised]
         ELSE [user_email |-> user, cookie |-> g.cookie, read |-> TRUE,
               checked |-> FALSE, subscribed |-> FALSE, revoked |-> FALSE,
               delRaised |-> FALSE, escaped |-> g.raised]

(***************************************************************************)
(* main(), lines 1013-1032: reconcile the session with the cookie.  The    *)
(* cookie is consulted whenever no user email is bound in the session,     *)
(* before the administrator flag is looked at.                             *)
(***************************************************************************)
\* variant of main_resolution that drops a bound email at the start of the
\* cycle instead of keeping it
main_resolution_unbinds(user, c, subs, t, readFault, dbFault, delFault) ==
    IF user # None
    THEN [user_email |-> None, cookie |-> c, read |-> FALSE, checked |-> FALSE,
          subscribed |-> FALSE, revoked |-> FALSE, delRaised |-> FALSE,
          escaped |-> FALSE]
    ELSE LET g == get_auth_cookie(c, t, readFault) IN
         IF g.email # None /\ g.email[1] # EmptyText
         THEN LET cookie_email == g.email[1]
                  s == is_subscribed(subs, cookie_email, t, dbFault)
              IN  IF s.result
                  THEN [user_email |-> Some(cookie_email), cookie |-> g.cookie,
                        read |-> TRUE, checked |-> TRUE, subscribed |-> TRUE,
                        revoked |-> FALSE, delRaised |-> FALSE,
                        escaped |-> g.raised \/ s.raised]
                  ELSE LET d == delete_auth_cookie(g.cookie, delFault) IN
                       [user_email |-> user, cookie |-> d.cookie,
                        read |-> TRUE, checked |-> TRUE, subscribed |-> FALSE,
                        revoked |-> TRUE, delRaised |-> d.storeRaised,
                        escaped |-> g.raised \/ s.raised \/ d.raised]
         ELSE [user_email |-> user, cookie |-> g.cookie, read |-> TRUE,
               checked |-> FALSE, subscribed |-> FALSE, revoked |-> FALSE,
               delRaised |-> FALSE, escaped |-> g.raised]

main_resolution(user, c, subs, t, readFault, dbFault, delFault) ==
    IF user # None
    THEN [user_email |-> user, cookie |-> c, read |-> FALSE, checked |-> FALSE,
          subscribed |-> FALSE, revoked |-> FALSE, delRaised |-> FALSE,
          escaped |-> FALSE]
    ELSE LET g == get_auth_cookie(c, t, readFault) IN
         IF g.email # None /\ g.email[1] # EmptyText
         THEN LET cookie_email == g.email[1]
                  s == is_subscribed(subs, cookie_email, t, dbFault)
              IN  IF s.result
                  THEN [user_email |-> Some(cookie_email), cookie |-> g.cookie,
                        read |-> TRUE, checked |-> TRUE, subscribed |-> TRUE,
                        revoked |-> FALSE, delRaised |-> FALSE,
                        escaped |-> g.raised \/ s.raised]
                  ELSE LET d == delete_auth_cookie(g.cookie, delFault) IN
                       [user_email |-> user, cookie |-> d.cookie,
                        read |-> TRUE, checked |-> TRUE, subscribed |-> FALSE,
                        revoked |-> TRUE, delRaised |-> d.storeRaised,
                        escaped |-> g.raised \/ s.raised \/ d.raised]
         ELSE [user_email |-> user, cookie |-> g.cookie, read |-> TRUE,
               checked |-> FALSE, subscribed |-> FALSE, revoked |-> FALSE,
               delRaised |-> FALSE, escaped |-> g.raised]

(***************************************************************************)
(* main(), lines 1036-1047: the identity the rerun acts as.                *)
(***************************************************************************)
Administrator == [kind |-> "Administrator", email |-> None]
Anonymous == [kind |-> "Anonymous", email |-> None]
Subscriber(email) == [kind |-> "Subscriber", email |-> Some(email)]
Unresolved == [kind |-> "Unresolved", email |-> None]

main_dispatch(admin, user) ==
    IF admin # None THEN Administrator
    ELSE IF user = None THEN Anonymous
    ELSE Subscriber(user[1])

(***************************************************************************)
(* The expense store.  An ExpenseRecord is a record of the eleven fields   *)
(* of the dataclass; a field that may be None (SQL NULL) is an optional.   *)
(* The expenses table is the sequence of its rows in rowid order; a row    *)
(* has the same fields, validated being the integer SQLite stores.         *)
(***************************************************************************)
ExpenseRecord(id, date, amount, supplier, category, description, file_path, siret, tva_rate, validated, created_at) ==
    [id |-> id, date |-> date, amount |-> amount, supplier |-> supplier,
     category |-> category, description |-> description, file_path |-> file_path,
     siret |-> siret, tva_rate |-> tva_rate, validated |-> validated,
     created_at |-> created_at]

DateA == <<"2", "0", "2", "3", "-", "1", "2", "-", "3", "1">>
DateB == <<"2", "0", "2", "4", "-", "0", "1", "-", "0", "1">>
DateC == <<"2", "0", "2", "4", "-", "0", "6", "-", "1", "5">>
IsoDates == {DateA, DateB, DateC}

\* the position of a character in SQLite's BINARY collation, for the
\* characters of dates: '-' sorts before the digits
CharRank(c) == IF c = "-" THEN 0 ELSE DigitValue(c) + 1

RECURSIVE TextLess(_, _)
TextLess(a, b) ==
    IF b = <<>> THEN FALSE
    ELSE IF a = <<>> THEN TRUE
    ELSE IF a[1] = b[1] THEN TextLess(Tail(a), Tail(b))
    ELSE CharRank(a[1]) < CharRank(b[1])

(***************************************************************************)
(* SQLite's strftime('%Y', date): the four year digits when the text is a  *)
(* day written YYYY-MM-DD, NULL when the text is none of the time formats  *)
(* SQLite reads (of the texts used here: the empty text) or is NULL.       *)
(***************************************************************************)
strftime_Y(date) ==
    IF date = None THEN None
    ELSE LET d == date[1] IN
         IF /\ Len(d) = 10
            /\ \A i \in {1, 2, 3, 4, 6, 7, 9, 10} : d[i] \in DigitSet
            /\ d[5] = "-" /\ d[8] = "-"
            /\ 10 * DigitValue(d[6]) + DigitValue(d[7]) \in 1..12
            /\ 10 * DigitValue(d[9]) + DigitValue(d[10]) \in 1..31
         THEN Some(SubSeq(d, 1, 4))
         ELSE None

(***************************************************************************)
(* Python's str(year): the decimal digits, no padding.                     *)
(***************************************************************************)
RECURSIVE str(_)
str(n) ==
    IF n < 0 THEN <<"-">> \o str(-n)
    ELSE IF n < 10 THEN <<Digits[n + 1]>>
    ELSE str(n \div 10) \o <<Digits[(n % 10) + 1]>>

(***************************************************************************)
(* ORDER BY date DESC: text comparison; rows of equal date are left in     *)
(* rowid order (SQL leaves their order open).                              *)
(***************************************************************************)
InsertByDate(sorted, row) ==
    LET k == Cardinality({i \in 1..Len(sorted) :
                            ~TextLess(sorted[i].date[1], row.date[1])})
    IN  SubSeq(sorted, 1, k) \o <<row>> \o SubSeq(sorted, k + 1, Len(sorted))

RECURSIVE OrderByDateDesc(_)
OrderByDateDesc(rows) ==
    IF rows = <<>> THEN <<>>
    ELSE InsertByDate(OrderByDateDesc(SubSeq(rows, 1, Len(rows) - 1)),
                      rows[Len(rows)])

(***************************************************************************)
(* Variant of add_expense that leaves validated to the column default.     *)
(***************************************************************************)
add_expense_default_validated(rows, expense, dbFault) ==
    IF \/ dbFault
       \/ \E i \in 1..Len(rows) : rows[i].id = expense.id
       \/ expense.date = None \/ expense.amount = None
       \/ expense.supplier = None \/ expense.category = None
    THEN [ok |-> FALSE, rows |-> rows]
    ELSE [ok |-> TRUE,
          rows |-> Append(rows, [expense EXCEPT !.validated = 1])]

(***************************************************************************)
(* Variant of add_expense whose failed INSERT is not undone: a row refused *)
(* for a NULL supplier or category stays in the table.                     *)
(***************************************************************************)
add_expense_no_rollback(rows, expense, dbFault) ==
    IF \/ dbFault
       \/ \E i \in 1..Len(rows) : rows[i].id = expense.id
       \/ expense.date = None \/ expense.amount = None
    THEN [ok |-> FALSE, rows |-> rows]
    ELSE IF expense.supplier = None \/ expense.category = None
    THEN [ok |-> FALSE,
          rows |-> Append(rows, [expense EXCEPT
                                   !.validated = IF expense.validated THEN 1 ELSE 0])]
    ELSE [ok |-> TRUE,
          rows |-> Append(rows, [expense EXCEPT
                                   !.validated = IF expense.validated THEN 1 ELSE 0])]

(***************************************************************************)
(* Variant of add_expense that accepts a NULL category.                    *)
(***************************************************************************)
add_expense_null_category(rows, expense, dbFault) ==
    IF \/ dbFault
       \/ \E i \in 1..Len(rows) : rows[i].id = expense.id
       \/ expense.date = None \/ expense.amount = None
       \/ expense.supplier = None
    THEN [ok |-> FALSE, rows |-> rows]
    ELSE [ok |-> TRUE,
          rows |-> Append(rows, [expense EXCEPT
                                   !.validated = IF expense.validated THEN 1 ELSE 0])]

(***************************************************************************)
(* DatabaseManager.add_expense(expense): one INSERT of the eleven fields.  *)
(* The statement fails when the id is already a primary key of the table   *)
(* or when a NOT NULL column (date, amount, supplier, category) would get  *)
(* NULL; an empty text is not NULL.  On any failure the transaction is     *)
(* rolled back and False is returned.                                      *)
(***************************************************************************)
\* variant of add_expense with INSERT OR REPLACE: a row with the same id is
\* overwritten
add_expense_replacing(rows, expense, dbFault) ==
    IF \/ dbFault
       \/ expense.date = None \/ expense.amount = None
       \/ expense.supplier = None \/ expense.category = None
    THEN [ok |-> FALSE, rows |-> rows]
    ELSE LET row == [expense EXCEPT !.validated = IF expense.validated THEN 1 ELSE 0]
         IN  [ok |-> TRUE,
              rows |-> IF \E i \in 1..Len(rows) : rows[i].id = expense.id
                       THEN [i \in 1..Len(rows) |->
                                IF rows[i].id = expense.id THEN row ELSE rows[i]]
                       ELSE Append(rows, row)]

add_expense(rows, expense, dbFault) ==
    IF \/ dbFault
       \/ \E i \in 1..Len(rows) : rows[i].id = expense.id
       \/ expense.date = None \/ expense.amount = None
       \/ expense.supplier = None \/ expense.category = None
    THEN [ok |-> FALSE, rows |-> rows]
    ELSE [ok |-> TRUE,
          rows |-> Append(rows, [expense EXCEPT
                                   !.validated = IF expense.validated THEN 1 ELSE 0])]

(***************************************************************************)
(* DatabaseManager.get_expenses(year): the rows, filtered by year when the *)
(* argument is truthy (neither None nor 0), newest date first, each        *)
(* rebuilt as an ExpenseRecord; the empty list on a storage error.         *)
(***************************************************************************)
get_expenses(rows, year, dbFault) ==
    IF dbFault THEN <<>>
    ELSE LET InYear(row) == strftime_Y(row.date) = Some(str(year[1]))
             selected == IF year # None /\ year[1] # 0
                         THEN SelectSeq(rows, InYear)
                         ELSE rows
             ordered == OrderByDateDesc(selected)
         IN  [i \in 1..Len(ordered) |->
                ExpenseRecord(ordered[i].id, ordered[i].date, ordered[i].amount,
                              ordered[i].supplier, ordered[i].category,
                              ordered[i].description, ordered[i].file_path,
                              ordered[i].siret, ordered[i].tva_rate,
                              ordered[i].validated # 0, ordered[i].created_at)]

(***************************************************************************)
(* Variant of delete_expense that reports True whenever the statement ran. *)
(***************************************************************************)
delete_expense_always_true(rows, expense_id, dbFault) ==
    IF dbFault THEN [ok |-> FALSE, rows |-> rows]
    ELSE LET Keep(row) == row.id # expense_id
         IN  [ok |-> TRUE, rows |-> SelectSeq(rows, Keep)]

(***************************************************************************)
(* DatabaseManager.delete_expense(expense_id): DELETE ... WHERE id = ?,    *)
(* True when cursor.rowcount is positive; rolled back and False on an      *)
(* error.                                                                  *)
(***************************************************************************)
delete_expense(rows, expense_id, dbFault) ==
    IF dbFault THEN [ok |-> FALSE, rows |-> rows]
    ELSE LET Keep(row) == row.id # expense_id
             kept == SelectSeq(rows, Keep)
             rows_affected == Len(rows) - Len(kept)
         IN  [ok |-> rows_affected > 0, rows |-> kept]

(***************************************************************************)
(* init_database(): the three CREATE TABLE IF NOT EXISTS leave existing    *)
(* tables alone; the ten default categories are inserted with INSERT OR    *)
(* IGNORE, which skips a pair when either name is already in the table     *)
(* (both columns are UNIQUE).  The id is the AUTOINCREMENT key; no row of  *)
(* the table is ever deleted, so it is the number of rows plus one.  An    *)
(* error is not caught: it propagates to the caller.                       *)
(***************************************************************************)
default_categories ==
    <<<<"Fournitures", "Förbrukningsmaterial">>,
      <<"Salaire", "Lön">>,
      <<"Location", "Hyra">>,
      <<"Électricité", "El">>,
      <<"Internet", "Internet">>,
      <<"Assurance", "Försäkring">>,
      <<"Marketing", "Marknadsföring">>,
      <<"Maintenance", "Underhåll">>,
      <<"Transport", "Transport">>,
      <<"Autre", "Övrigt">>>>

\* variant of insert_or_ignore with no uniqueness check
insert_plain(cats, cat_fr, cat_se) ==
    Append(cats, [id |-> Len(cats) + 1, name_fr |-> cat_fr, name_se |-> cat_se])

insert_or_ignore(cats, cat_fr, cat_se) ==
    IF \E i \in 1..Len(cats) : cats[i].name_fr = cat_fr \/ cats[i].name_se = cat_se
    THEN cats
    ELSE Append(cats, [id |-> Len(cats) + 1, name_fr |-> cat_fr, name_se |-> cat_se])

RECURSIVE seed_categories(_, _)
seed_categories(cats, k) ==
    IF k > Len(default_categories) THEN cats
    ELSE seed_categories(insert_or_ignore(cats, default_categories[k][1],
                                          default_categories[k][2]), k + 1)

init_database(cats, dbFault) ==
    IF dbFault
    THEN [raised |-> TRUE, categories |-> cats]
    ELSE [raised |-> FALSE, categories |-> seed_categories(cats, 1)]

(***************************************************************************)
(* What the last step did: its operation, the session and cookie it        *)
(* started from, the calls it made and their outcomes.                     *)
(***************************************************************************)
NoLog ==
    [op |-> "none", admin0 |-> None, user0 |-> None, cookie0 |-> None,
     read |-> FALSE, readFault |-> FALSE, checked |-> FALSE, subscribed |-> FALSE,
     dbFault |-> FALSE, revoked |-> FALSE, delFault |-> FALSE, escaped |-> FALSE,
     email |-> EmptyText, days |-> 0, ok |-> FALSE,
     granted_by_admin |-> FALSE, row0 |-> None,
     button |-> FALSE, checkbox |-> FALSE, password |-> EmptyText]

LogOf(op) == [NoLog EXCEPT !.op = op]

\* the row the subscriptions table holds for email, if any
RowOf(subs, email) == IF email \in DOMAIN subs THEN Some(subs[email]) ELSE None

LogFrom(op) ==
    [NoLog EXCEPT !.op = op, !.admin0 = admin_email, !.user0 = user_email,
                  !.cookie0 = cookie]

(***************************************************************************)
(* ORDER BY on a TEXT column: SQLite's BINARY collation compares the       *)
(* UTF-8 bytes, which orders texts as their code points do.  The code      *)
(* points of the category names:                                           *)
(***************************************************************************)
code_points(name) ==
    CASE name = "Assurance" -> <<65, 115, 115, 117, 114, 97, 110, 99, 101>>
      [] name = "Autre" -> <<65, 117, 116, 114, 101>>
      [] name = "El" -> <<69, 108>>
      [] name = "Fournitures" -> <<70, 111, 117, 114, 110, 105, 116, 117, 114, 101, 115>>
      [] name = "Förbrukningsmaterial" -> <<70, 246, 114, 98, 114, 117, 107, 110, 105, 110, 103, 115, 109, 97, 116, 101, 114, 105, 97, 108>>
      [] name = "Försäkring" -> <<70, 246, 114, 115, 228, 107, 114, 105, 110, 103>>
      [] name = "Hyra" -> <<72, 121, 114, 97>>
      [] name = "Internet" -> <<73, 110, 116, 101, 114, 110, 101, 116>>
      [] name = "Location" -> <<76, 111, 99, 97, 116, 105, 111, 110>>
      [] name = "Lön" -> <<76, 246, 110>>
      [] name = "Maintenance" -> <<77, 97, 105, 110, 116, 101, 110, 97, 110, 99, 101>>
      [] name = "Marketing" -> <<77, 97, 114, 107, 101, 116, 105, 110, 103>>
      [] name = "Marknadsföring" -> <<77, 97, 114, 107, 110, 97, 100, 115, 102, 246, 114, 105, 110, 103>>
      [] name = "Salaire" -> <<83, 97, 108, 97, 105, 114, 101>>
      [] name = "Transport" -> <<84, 114, 97, 110, 115, 112, 111, 114, 116>>
      [] name = "Underhåll" -> <<85, 110, 100, 101, 114, 104, 229, 108, 108>>
      [] name = "Électricité" -> <<201, 108, 101, 99, 116, 114, 105, 99, 105, 116, 233>>
      [] name = "Övrigt" -> <<214, 118, 114, 105, 103, 116>>

RECURSIVE PointsLess(_, _)
PointsLess(a, b) ==
    IF b = <<>> THEN FALSE
    ELSE IF a = <<>> THEN TRUE
    ELSE IF a[1] = b[1] THEN PointsLess(Tail(a), Tail(b))
    ELSE a[1] < b[1]

\* name a sorts strictly before name b
NameLess(a, b) == PointsLess(code_points(a), code_points(b))

InsertByName(sorted, name) ==
    LET k == Cardinality({i \in 1..Len(sorted) : ~NameLess(name, sorted[i])})
    IN  SubSeq(sorted, 1, k) \o <<name>> \o SubSeq(sorted, k + 1, Len(sorted))

RECURSIVE OrderByName(_)
OrderByName(names) ==
    IF names = <<>> THEN <<>>
    ELSE InsertByName(OrderByName(SubSeq(names, 1, Len(names) - 1)),
                      names[Len(names)])

\* variant of get_categories that lets a storage error reach the caller
get_categories_raising(cats, lang, dbFault) ==
    IF dbFault
    THEN [raised |-> TRUE, names |-> <<>>]
    ELSE [raised |-> FALSE,
          names |-> OrderByName([i \in 1..Len(cats) |->
                                   IF lang = "fr" THEN cats[i].name_fr
                                   ELSE cats[i].name_se])]

(***************************************************************************)
(* DatabaseManager.get_categories(lang): the column name_fr for 'fr' and   *)
(* name_se for any other language, ORDER BY that column; on any error the  *)
(* three hard-coded names of the language.                                 *)
(***************************************************************************)
get_categories(cats, lang, dbFault) ==
    IF dbFault
    THEN [raised |-> FALSE,
          names |-> IF lang = "fr"
                    THEN <<"Fournitures", "Salaire", "Location">>
                    ELSE <<"Förbrukningsmaterial", "Lön", "Hyra">>]
    ELSE [raised |-> FALSE,
          names |-> OrderByName([i \in 1..Len(cats) |->
                                   IF lang = "fr" THEN cats[i].name_fr
                                   ELSE cats[i].name_se])]

(***************************************************************************)
(* What the last DatabaseManager call was: its arguments, what it          *)
(* returned, and the expenses table it started from.                       *)
(***************************************************************************)
NoText == [format |-> "none", payload |-> <<>>, stray |-> 0, padding_ok |-> FALSE]

\* the texts handed to checkpw as stored hash: the outputs of _hash_password
\* on every build, and each of them with one character outside the base64
\* alphabet added, with one byte added after the digest, with its last byte
\* missing, and with its padding removed; and the empty text
HashOutputs ==
    {_hash_password(encode(p), salt, build).hashed :
        p \in PasswordInputs, salt \in Salts, build \in Builds}
WithStray(h) == [h EXCEPT !.stray = 1]
WithExtraByte(h) ==
    [h EXCEPT !.payload = FirstBytes(h.payload, DigestSize) \o <<Byte("X")>>
                          \o SubSeq(h.payload, DigestSize + 1, Len(h.payload))]
WithoutLastByte(h) ==
    [h EXCEPT !.payload = FirstBytes(h.payload, Len(h.payload) - 1)]
WithoutPadding(h) == [h EXCEPT !.padding_ok = FALSE]
HashedInputs ==
    HashOutputs \cup {NoText}
      \cup {WithStray(h) : h \in HashOutputs \ {NoText}}
      \cup {WithExtraByte(h) : h \in HashOutputs \ {NoText}}
      \cup {WithoutLastByte(h) : h \in HashOutputs \ {NoText}}
      \cup {WithoutPadding(h) : h \in HashOutputs \ {NoText}}

NoCall ==
    [op |-> "none", expense |-> None, expense_id |-> "", year |-> None,
     dbFault |-> FALSE, ok |-> FALSE, raised |-> FALSE, result |-> <<>>,
     expenses0 |-> <<>>, lang |-> "", names |-> <<>>,
     build |-> "", password |-> <<>>, salt |-> <<>>, hashed |-> NoText,
     name |-> "", fault |-> "none", handles |-> 0, pending |-> FALSE]

CallOf(op) == [NoCall EXCEPT !.op = op, !.expenses0 = expenses]

(***************************************************************************)
(* The arguments the callers of DatabaseManager pass.  Ids are texts.      *)
(* RegularExpenses are records as the import page builds them; the others  *)
(* differ from one of them in a single field: not validated, supplier /    *)
(* category / date / amount None, supplier / category / date the empty     *)
(* text, amount 0.                                                         *)
(***************************************************************************)
Ids == {"e1", "e2", "e3"}

RegularExpense(id, date) ==
    ExpenseRecord(id, Some(date), Some(5), Some(<<"s">>), Some("Autre"),
                  Some("note"), Some("f.pdf"), None, 20, TRUE, None)

RegularExpenses == {RegularExpense(id, date) : id \in Ids, date \in IsoDates}

IrregularExpenses ==
    LET r == RegularExpense("e1", DateB) IN
    {[r EXCEPT !.validated = FALSE],
     [r EXCEPT !.supplier = None], [r EXCEPT !.supplier = Some(EmptyText)],
     [r EXCEPT !.category = None], [r EXCEPT !.category = Some("")],
     [r EXCEPT !.date = None], [r EXCEPT !.date = Some(EmptyText)],
     [r EXCEPT !.amount = None], [r EXCEPT !.amount = Some(0)]}

ExpenseInputs == RegularExpenses \cup IrregularExpenses

YearInputs == {None, Some(0), Some(2023), Some(2024), Some(2025)}

\* the two languages of the application
LangInputs == {"fr", "se"}

(***************************************************************************)
(* Python's str.strip() on the texts typed into the supplier field.        *)
(***************************************************************************)
RECURSIVE strip(_)
strip(s) ==
    IF s = <<>> THEN s
    ELSE IF s[1] = " " THEN strip(Tail(s))
    ELSE IF s[Len(s)] = " " THEN strip(SubSeq(s, 1, Len(s) - 1))
    ELSE s

\* what the widgets of the manual entry form return
SupplierInputs == {EmptyText, <<" ">>, <<"s">>}
AmountInputs == {5}
CategoryInputs == {"Autre"}

\* datetime.now().year on the dashboard
current_year == 2024

(***************************************************************************)
(* Two callers that run delete_expense at the same time, each on its own   *)
(* connection.  A call is idle, connected (before the DELETE), executed    *)
(* (the DELETE ran inside the caller's transaction, which holds the write  *)
(* lock) or done (it returned ok).                                         *)
(***************************************************************************)
Procs == {1, 2}
Idle == [pc |-> "idle", expense_id |-> "", rows_affected |-> 0, ok |-> FALSE]

\* the tables the concurrent callers start from: up to MaxRows regular rows
ConcStores ==
    {add_expense(<<>>, RegularExpense(i, DateB), FALSE).rows : i \in Ids}
    \cup {add_expense(add_expense(<<>>, RegularExpense(i, DateB), FALSE).rows,
                      RegularExpense(j, DateC), FALSE).rows :
             i \in Ids, j \in IF MaxRows >= 2 THEN Ids ELSE {}}
    \cup {add_expense(add_expense(add_expense(<<>>,
                         RegularExpense(i, DateB), FALSE).rows,
                         RegularExpense(j, DateC), FALSE).rows,
                         RegularExpense(k, DateA), FALSE).rows :
             i \in Ids, j \in Ids, k \in IF MaxRows >= 3 THEN Ids ELSE {}}

(***************************************************************************)
(* The cookies a client can present: none, an empty value, a value with no *)
(* separator, one with an unparsable expiry, one with an empty email, and  *)
(* well-formed ones for EmailA.                                            *)
(***************************************************************************)
ClientExpiries == {2}
ClientCookieValues ==
    {EmptyText, EmailA, EmailA \o <<Sep, "a">>, <<Sep>> \o isoformat(2)}
        \cup {EmailA \o <<Sep>> \o isoformat(x) : x \in ClientExpiries}
ClientCookies == {None} \cup {CookieSet(v, None) : v \in ClientCookieValues}

\* the confirmation checkbox of the data tab: whether the last run of the
\* script rendered it, and its value
NoWidgets == [checkbox_rendered |-> FALSE, checkbox |-> FALSE]

InitSession ==
    /\ now = 0
    /\ admin_email = None
    /\ user_email = None
    /\ cookie = None
    /\ subscriptions = NoRows
    /\ pc = "resolve"
    /\ identity = Unresolved
    /\ log = NoLog
    /\ granted = NoRows
    /\ categories = init_database(<<>>, FALSE).categories
    /\ conns = [p \in Procs |-> Idle]
    /\ lock = None
    /\ widgets = NoWidgets

Init ==
    /\ InitSession
    /\ expenses = <<>>
    /\ call = NoCall

\* the state in which two callers are about to delete from a filled table
InitConc ==
    /\ InitSession
    /\ expenses \in ConcStores
    /\ call = [NoCall EXCEPT !.expenses0 = expenses]

(***************************************************************************)
(* Environment between two reruns: the clock advances, the client changes  *)
(* its cookie jar (expiry, clearing, editing), a new browser session       *)
(* starts with an empty session state.                                     *)
(***************************************************************************)
Tick ==
    /\ pc = "resolve"
    /\ \E t \in Instants :
          /\ t > now
          /\ \A u \in Instants : u > now => t <= u
          /\ now' = t
    /\ log' = NoLog
    /\ UNCHANGED <<storeVars, granted, admin_email, user_email, cookie, subscriptions, pc,
                   identity>>

ClientCookieChange ==
    /\ pc = "resolve"
    /\ \E c \in ClientCookies :
          /\ c # cookie
          /\ cookie' = c
    /\ log' = NoLog
    /\ UNCHANGED <<storeVars, granted, now, admin_email, user_email, subscriptions, pc,
                   identity>>

NewSession ==
    /\ pc = "resolve"
    /\ admin_email # None \/ user_email # None
    /\ admin_email' = None
    /\ user_email' = None
    /\ log' = NoLog
    /\ UNCHANGED <<storeVars, granted, now, cookie, subscriptions, pc, identity>>

(***************************************************************************)
(* main(), lines 1013-1047.                                                *)
(***************************************************************************)
Resolve ==
    /\ pc = "resolve"
    /\ \E readFault \in BOOLEAN, dbFault \in BOOLEAN, delFault \in BOOLEAN :
          LET r == main_resolution(user_email, cookie, subscriptions, now,
                                   readFault, dbFault, delFault)
          IN  /\ user_email' = r.user_email
              /\ cookie' = r.cookie
              /\ identity' = main_dispatch(admin_email, r.user_email)
              /\ log' = [LogFrom("resolve") EXCEPT
                            !.read = r.read, !.readFault = readFault /\ r.read,
                            !.checked = r.checked, !.subscribed = r.subscribed,
                            !.dbFault = dbFault /\ r.checked,
                            !.revoked = r.revoked,
                            !.delFault = r.delRaised,
                            !.escaped = r.escaped]
    /\ pc' = "page"
    /\ UNCHANGED <<storeVars, granted, now, admin_email, subscriptions>>

(***************************************************************************)
(* A rerun in which no button was pressed.                                 *)
(***************************************************************************)
Render ==
    /\ pc = "page"
    /\ pc' = "resolve"
    /\ identity' = Unresolved
    /\ log' = NoLog
    /\ UNCHANGED <<storeVars, granted, now, admin_email, user_email, cookie, subscriptions>>

(***************************************************************************)
(* show_subscription_screen(): the 30-day trial button.                    *)
(***************************************************************************)
TrialActivate ==
    /\ pc = "page"
    /\ identity = Anonymous
    /\ now <= MaxGrantTime
    /\ \E test_email \in TextInputs, dbFault \in BOOLEAN :
          IF test_email # EmptyText
          THEN LET g == grant_free_subscription(subscriptions, test_email,
                                                TrialDays, FALSE, now, dbFault)
               IN  /\ subscriptions' = g.subs
                   /\ IF g.ok
                      THEN /\ user_email' = Some(test_email)
                           /\ cookie' = set_auth_cookie(test_email,
                                                        DefaultCookieDays, now)
                           /\ granted' = Upsert(granted, test_email,
                                                [at |-> now, days |-> TrialDays])
                      ELSE UNCHANGED <<user_email, cookie, granted>>
                   /\ log' = [LogOf("trial") EXCEPT !.email = test_email,
                                 !.days = TrialDays, !.dbFault = dbFault,
                                 !.ok = g.ok, !.granted_by_admin = FALSE,
                                 !.row0 = RowOf(subscriptions, test_email)]
          ELSE /\ UNCHANGED <<subscriptions, user_email, cookie, granted>>
               /\ log' = LogOf("trial")
    /\ pc' = "resolve"
    /\ identity' = Unresolved
    /\ UNCHANGED <<storeVars, now, admin_email>>

(***************************************************************************)
(* show_admin_login(): the password form behind the sidebar button.  The   *)
(* values the widgets return in a rerun are inputs of the step: here the   *)
(* sidebar button (line 1043) and the form button (line 923) both read     *)
(* true and the password field holds any of PasswordInputs.                *)
(***************************************************************************)
AdminLogin ==
    /\ pc = "page"
    /\ identity = Anonymous
    /\ \E password \in PasswordInputs, build \in Builds :
          /\ admin_email' = IF authenticate_admin(password, build)
                            THEN Some(AdminAccount) ELSE admin_email
          /\ log' = [LogOf("login") EXCEPT !.password = password,
                        !.ok = authenticate_admin(password, build)]
    /\ pc' = "resolve"
    /\ identity' = Unresolved
    /\ UNCHANGED <<storeVars, granted, now, user_email, cookie, subscriptions>>

(***************************************************************************)
(* show_admin_panel(): logout, grant / renew a subscription, add an        *)
(* administrator.                                                          *)
(***************************************************************************)
AdminLogout ==
    /\ pc = "page"
    /\ identity = Administrator
    /\ admin_email' = None
    /\ log' = LogOf("admin_logout")
    /\ pc' = "resolve"
    /\ identity' = Unresolved
    /\ UNCHANGED <<storeVars, granted, now, user_email, cookie, subscriptions>>

AdminGrant ==
    /\ pc = "page"
    /\ identity = Administrator
    /\ now <= MaxGrantTime
    /\ \E email \in TextInputs, days \in AdminDayInputs, dbFault \in BOOLEAN :
          IF email # EmptyText /\ \E i \in 1..Len(email) : email[i] = "@"
          THEN LET g == grant_free_subscription(subscriptions, email, days,
                                                TRUE, now, dbFault)
               IN  /\ subscriptions' = g.subs
                   /\ granted' = IF g.ok
                                 THEN Upsert(granted, email,
                                             [at |-> now, days |-> days])
                                 ELSE granted
                   /\ log' = [LogOf("grant") EXCEPT !.email = email,
                                 !.days = days, !.dbFault = dbFault, !.ok = g.ok,
                                 !.granted_by_admin = TRUE,
                                 !.row0 = RowOf(subscriptions, email)]
          ELSE /\ UNCHANGED <<subscriptions, granted>>
               /\ log' = LogOf("grant")
    /\ pc' = "resolve"
    /\ identity' = Unresolved
    /\ UNCHANGED <<storeVars, now, admin_email, user_email, cookie>>

AdminAddAdmin ==
    /\ pc = "page"
    /\ identity = Administrator
    /\ \E email \in TextInputs, dbFault \in BOOLEAN :
          IF email # EmptyText /\ \E i \in 1..Len(email) : email[i] = "@"
          THEN LET a == add_admin(subscriptions, email, dbFault)
               IN  /\ subscriptions' = a.subs
                   /\ log' = [LogOf("add_admin") EXCEPT !.email = email,
                                 !.dbFault = dbFault, !.ok = a.ok,
                                 !.row0 = RowOf(subscriptions, email)]
          ELSE /\ UNCHANGED subscriptions
               /\ log' = LogOf("add_admin")
    /\ pc' = "resolve"
    /\ identity' = Unresolved
    /\ UNCHANGED <<storeVars, granted, now, admin_email, user_email, cookie>>

(***************************************************************************)
(* main(), lines 1074-1082: the subscriber's logout button.                *)
(***************************************************************************)
Logout ==
    /\ pc = "page"
    /\ identity.kind = "Subscriber"
    /\ \E delFault \in BOOLEAN :
          LET d == delete_auth_cookie(cookie, delFault)
          IN  /\ cookie' = d.cookie
              /\ log' = [LogFrom("logout") EXCEPT !.revoked = TRUE,
                            !.delFault = d.storeRaised, !.escaped = d.raised]
    /\ user_email' = None
    /\ pc' = "resolve"
    /\ identity' = Unresolved
    /\ UNCHANGED <<storeVars, granted, now, admin_email, subscriptions>>

(***************************************************************************)
(* show_import_page(): the save button of the manual entry form.  The id   *)
(* is the first eight hex digits of an MD5 digest of the fields and the    *)
(* time: any id, also one already in the table.                            *)
(***************************************************************************)
ImportSave ==
    /\ pc = "page"
    /\ identity.kind = "Subscriber"
    /\ Len(expenses) < MaxRows
    /\ \E date \in IsoDates, amount \in AmountInputs, supplier \in SupplierInputs,
          category \in {c \in CategoryInputs :
                          \E i \in 1..Len(categories) : categories[i].name_fr = c},
          expense_id \in Ids, dbFault \in BOOLEAN :
          IF amount > 0 /\ strip(supplier) # EmptyText
          THEN LET expense == ExpenseRecord(expense_id, Some(date), Some(amount),
                                            Some(supplier), Some(category),
                                            Some("note"), Some("f.pdf"),
                                            None, 20, TRUE, None)
                   a == add_expense(expenses, expense, dbFault)
               IN  /\ expenses' = a.rows
                   /\ call' = [CallOf("add") EXCEPT !.expense = Some(expense),
                                  !.dbFault = dbFault, !.ok = a.ok]
          ELSE /\ UNCHANGED expenses
               /\ call' = CallOf("none")
    /\ log' = LogOf("import")
    /\ pc' = "resolve"
    /\ identity' = Unresolved
    /\ UNCHANGED <<widgets, granted, now, admin_email, user_email, cookie,
                   subscriptions,
                   categories, conns, lock>>

(***************************************************************************)
(* show_dashboard_page(): the delete button of one of the expenses of the  *)
(* current year that the page lists (the first ten).                       *)
(***************************************************************************)
DashboardDelete ==
    /\ pc = "page"
    /\ identity.kind = "Subscriber"
    /\ \E readFault \in BOOLEAN, dbFault \in BOOLEAN :
          LET listed == get_expenses(expenses, Some(current_year), readFault)
              recent_expenses == SubSeq(listed, 1, IF Len(listed) < 10
                                                   THEN Len(listed) ELSE 10)
          IN  \E i \in 1..Len(recent_expenses) :
                 LET d == delete_expense(expenses, recent_expenses[i].id, dbFault)
                 IN  /\ expenses' = d.rows
                     /\ call' = [CallOf("delete") EXCEPT
                                    !.expense_id = recent_expenses[i].id,
                                    !.dbFault = dbFault, !.ok = d.ok]
    /\ log' = LogOf("dashboard")
    /\ pc' = "resolve"
    /\ identity' = Unresolved
    /\ UNCHANGED <<widgets, granted, now, admin_email, user_email, cookie,
                   subscriptions,
                   categories, conns, lock>>

(***************************************************************************)
(* show_admin_panel(), tab "Données": DELETE FROM expenses behind the      *)
(* button and the confirmation checkbox.  The values the two widgets       *)
(* return in the rerun are inputs of the step.  An error is caught and     *)
(* shown, and the connection is closed without a commit.                   *)
(***************************************************************************)
\* variant of delete_all_expenses that does not ask for the checkbox
delete_all_expenses_unconfirmed(rows, button, checkbox, dbFault) ==
    IF button
    THEN [ran |-> TRUE, ok |-> ~dbFault, rows |-> IF dbFault THEN rows ELSE <<>>]
    ELSE [ran |-> FALSE, ok |-> FALSE, rows |-> rows]

delete_all_expenses(rows, button, checkbox, dbFault) ==
    IF button /\ checkbox
    THEN [ran |-> TRUE, ok |-> ~dbFault, rows |-> IF dbFault THEN rows ELSE <<>>]
    ELSE [ran |-> FALSE, ok |-> FALSE, rows |-> rows]

AdminWipe ==
    /\ pc = "page"
    /\ identity = Administrator
    /\ \E button \in BOOLEAN, checkbox \in BOOLEAN, dbFault \in BOOLEAN :
          LET w == delete_all_expenses(expenses, button, checkbox, dbFault)
          IN  /\ expenses' = w.rows
              /\ call' = IF w.ran
                         THEN [CallOf("wipe") EXCEPT !.dbFault = dbFault,
                                  !.ok = w.ok]
                         ELSE CallOf("none")
              /\ log' = [LogOf("wipe") EXCEPT !.button = button,
                            !.checkbox = checkbox]
    /\ pc' = "resolve"
    /\ identity' = Unresolved
    /\ UNCHANGED <<widgets, granted, now, admin_email, user_email, cookie,
                   subscriptions,
                   categories, conns, lock>>

(***************************************************************************)
(* The data tab with the widgets as Streamlit runs them: every interaction *)
(* is one rerun; a button returns True only in the rerun its own click     *)
(* caused; a checkbox returns its value, False when it is first rendered;  *)
(* the state of a widget that a run does not render is dropped.  The       *)
(* checkbox is rendered only inside the button's branch (line 976 inside   *)
(* line 975).                                                              *)
(***************************************************************************)
\* the rerun caused by a click on the button
WipeButtonClick ==
    /\ pc = "page"
    /\ identity = Administrator
    /\ \E dbFault \in BOOLEAN :
          LET button == TRUE
              checkbox == IF widgets.checkbox_rendered THEN widgets.checkbox
                          ELSE FALSE
              w == delete_all_expenses(expenses, button, checkbox, dbFault)
          IN  /\ expenses' = w.rows
              /\ call' = IF w.ran
                         THEN [CallOf("wipe") EXCEPT !.dbFault = dbFault,
                                  !.ok = w.ok]
                         ELSE CallOf("none")
              /\ log' = [LogOf("wipe_click") EXCEPT !.button = button,
                            !.checkbox = checkbox]
              /\ widgets' = [checkbox_rendered |-> button, checkbox |-> checkbox]
    /\ pc' = "resolve"
    /\ identity' = Unresolved
    /\ UNCHANGED <<granted, now, admin_email, user_email, cookie, subscriptions,
                   categories, conns, lock>>

\* the rerun caused by ticking (or unticking) the checkbox the page shows:
\* the button reads False, so the script does not reach the checkbox
WipeCheckboxTick ==
    /\ pc = "page"
    /\ identity = Administrator
    /\ widgets.checkbox_rendered
    /\ \E dbFault \in BOOLEAN :
          LET button == FALSE
              checkbox == ~widgets.checkbox
              w == delete_all_expenses(expenses, button, checkbox, dbFault)
          IN  /\ expenses' = w.rows
              /\ call' = IF w.ran
                         THEN [CallOf("wipe") EXCEPT !.dbFault = dbFault,
                                  !.ok = w.ok]
                         ELSE CallOf("none")
              /\ log' = [LogOf("wipe_tick") EXCEPT !.button = button,
                            !.checkbox = checkbox, !.dbFault = dbFault]
              /\ widgets' = [checkbox_rendered |-> button,
                             checkbox |-> button /\ checkbox]
    /\ pc' = "resolve"
    /\ identity' = Unresolved
    /\ UNCHANGED <<granted, now, admin_email, user_email, cookie, subscriptions,
                   categories, conns, lock>>

\* a rerun of the admin panel caused by any other widget
AdminRerun ==
    /\ pc = "page"
    /\ identity = Administrator
    /\ log' = LogOf("render")
    /\ widgets' = NoWidgets
    /\ pc' = "resolve"
    /\ identity' = Unresolved
    /\ UNCHANGED <<granted, now, admin_email, user_email, cookie, subscriptions,
                   expenses, categories, call, conns, lock>>

(***************************************************************************)
(* The calls of DatabaseManager, as any caller of the class can make them. *)
(***************************************************************************)
AddExpenseCall ==
    /\ Len(expenses) < MaxRows
    /\ \E expense \in ExpenseInputs, dbFault \in BOOLEAN :
          LET a == add_expense(expenses, expense, dbFault)
          IN  /\ expenses' = a.rows
              /\ call' = [CallOf("add") EXCEPT !.expense = Some(expense),
                             !.dbFault = dbFault, !.ok = a.ok]
    /\ UNCHANGED <<widgets, now, admin_email, user_email, cookie, subscriptions, pc,
                   identity, log, granted, categories, conns, lock>>

GetExpensesCall ==
    /\ \E year \in YearInputs, dbFault \in BOOLEAN :
          call' = [CallOf("get") EXCEPT !.year = year, !.dbFault = dbFault,
                      !.result = get_expenses(expenses, year, dbFault)]
    /\ UNCHANGED <<widgets, now, admin_email, user_email, cookie, subscriptions, pc,
                   identity, log, granted, expenses, categories, conns, lock>>

GetCategoriesCall ==
    /\ \E lang \in LangInputs, dbFault \in BOOLEAN :
          LET g == get_categories(categories, lang, dbFault)
          IN  call' = [CallOf("categories") EXCEPT !.lang = lang,
                          !.dbFault = dbFault, !.raised = g.raised,
                          !.names = g.names]
    /\ UNCHANGED <<widgets, now, admin_email, user_email, cookie, subscriptions, pc,
                   identity, log, granted, expenses, categories, conns, lock>>

DeleteExpenseCall ==
    /\ \E expense_id \in Ids, dbFault \in BOOLEAN :
          LET d == delete_expense(expenses, expense_id, dbFault)
          IN  /\ expenses' = d.rows
              /\ call' = [CallOf("delete") EXCEPT !.expense_id = expense_id,
                             !.dbFault = dbFault, !.ok = d.ok]
    /\ UNCHANGED <<widgets, now, admin_email, user_email, cookie, subscriptions, pc,
                   identity, log, granted, categories, conns, lock>>

InitDatabaseCall ==
    /\ \E dbFault \in BOOLEAN :
          LET r == init_database(categories, dbFault)
          IN  /\ categories' = r.categories
              /\ call' = [CallOf("init") EXCEPT !.dbFault = dbFault,
                             !.raised = r.raised, !.ok = ~r.raised]
    /\ UNCHANGED <<widgets, now, admin_email, user_email, cookie, subscriptions, pc,
                   identity, log, granted, expenses, conns, lock>>

(***************************************************************************)
(* delete_expense step by step, for callers running at the same time.      *)
(* SQLite lets one connection at a time write: the DELETE of a second      *)
(* caller waits until the first has committed, or gives up after the busy  *)
(* timeout with "database is locked", which the except branch turns into   *)
(* False.                                                                  *)
(***************************************************************************)
\* variant of write_lock_free with no serialisation of writers
write_lock_ignored(l) == TRUE

write_lock_free(l) == l = None

DeleteConnect(p) ==
    /\ conns[p].pc = "idle"
    /\ \E expense_id \in Ids :
          conns' = [conns EXCEPT ![p] = [Idle EXCEPT !.pc = "connected",
                                            !.expense_id = expense_id]]
    /\ UNCHANGED <<widgets, now, admin_email, user_email, cookie, subscriptions, pc,
                   identity, log, granted, expenses, categories, call, lock>>

DeleteExecute(p) ==
    /\ conns[p].pc = "connected"
    /\ write_lock_free(lock)
    /\ lock' = Some(p)
    /\ conns' = [conns EXCEPT ![p].pc = "executed",
                    ![p].rows_affected =
                        Len(expenses)
                          - Len(delete_expense(expenses, conns[p].expense_id,
                                               FALSE).rows)]
    /\ UNCHANGED <<widgets, now, admin_email, user_email, cookie, subscriptions, pc,
                   identity, log, granted, expenses, categories, call>>

DeleteBusy(p) ==
    /\ conns[p].pc = "connected"
    /\ ~write_lock_free(lock)
    /\ conns' = [conns EXCEPT ![p].pc = "done", ![p].ok = FALSE]
    /\ UNCHANGED <<widgets, now, admin_email, user_email, cookie, subscriptions, pc,
                   identity, log, granted, expenses, categories, call, lock>>

DeleteCommit(p) ==
    /\ conns[p].pc = "executed"
    /\ expenses' = delete_expense(expenses, conns[p].expense_id, FALSE).rows
    /\ lock' = None
    /\ conns' = [conns EXCEPT ![p].pc = "done",
                    ![p].ok = conns[p].rows_affected > 0]
    /\ UNCHANGED <<widgets, now, admin_email, user_email, cookie, subscriptions, pc,
                   identity, log, granted, categories, call>>

Next ==
    \/ Tick
    \/ ClientCookieChange
    \/ NewSession
    \/ Resolve
    \/ Render
    \/ TrialActivate
    \/ AdminLogin
    \/ AdminLogout
    \/ AdminGrant
    \/ AdminAddAdmin
    \/ Logout

Spec == Init /\ [][Next]_vars

(***************************************************************************)
(* The pages of one browser session working on the expense store.          *)
(***************************************************************************)
NextPages ==
    \/ Resolve
    \/ Render
    \/ TrialActivate
    \/ AdminLogin
    \/ AdminLogout
    \/ Logout
    \/ ImportSave
    \/ DashboardDelete
    \/ AdminWipe

SpecPages == Init /\ [][NextPages]_vars

(***************************************************************************)
(* The calls of DatabaseManager, one after the other.                      *)
(***************************************************************************)
(***************************************************************************)
(* The connection of a storage operation.  Every operation opens its own   *)
(* with sqlite3.connect, runs its statements, commits if it writes, and    *)
(* closes.  An error may hit the connect, a statement or the commit.  The  *)
(* state of the operation's connection: conn (a handle is open), pending   *)
(* (the handle holds written, uncommitted changes), raised (an exception   *)
(* is on its way).                                                         *)
(***************************************************************************)
HandleFaults == {"none", "connect", "execute", "commit"}

\* conn = sqlite3.connect(...); cursor.execute(...); [conn.commit()]
connect_execute_commit(fault, mutates) ==
    [conn |-> fault # "connect",
     pending |-> mutates /\ fault \in {"execute", "commit"},
     raised |-> fault # "none"]

\* except Exception: [if conn: conn.rollback()]
except_clause(s, rolls_back) ==
    IF s.raised
    THEN [s EXCEPT !.raised = FALSE,
                   !.pending = IF rolls_back /\ s.conn THEN FALSE ELSE s.pending]
    ELSE s

\* finally: if conn: conn.close()    (closing drops the uncommitted changes)
finally_clause(s) ==
    IF s.conn THEN [s EXCEPT !.conn = FALSE, !.pending = FALSE] ELSE s

\* conn.close() as a plain statement: reached only when nothing raised
close_statement(s) ==
    IF s.raised THEN s ELSE [s EXCEPT !.conn = FALSE, !.pending = FALSE]

\* the operations: which write, which are wrapped in try/except/finally,
\* which roll back in their except clause
StorageOperations ==
    {[name |-> "init_database", mutates |-> TRUE, guarded |-> FALSE, rolls_back |-> FALSE],
     [name |-> "add_expense", mutates |-> TRUE, guarded |-> TRUE, rolls_back |-> TRUE],
     [name |-> "get_expenses", mutates |-> FALSE, guarded |-> TRUE, rolls_back |-> FALSE],
     [name |-> "get_categories", mutates |-> FALSE, guarded |-> TRUE, rolls_back |-> FALSE],
     [name |-> "delete_expense", mutates |-> TRUE, guarded |-> TRUE, rolls_back |-> TRUE],
     [name |-> "is_subscribed", mutates |-> FALSE, guarded |-> TRUE, rolls_back |-> FALSE],
     [name |-> "get_subscription_end_date", mutates |-> FALSE, guarded |-> TRUE, rolls_back |-> FALSE],
     [name |-> "grant_free_subscription", mutates |-> TRUE, guarded |-> TRUE, rolls_back |-> TRUE],
     [name |-> "add_admin", mutates |-> TRUE, guarded |-> TRUE, rolls_back |-> TRUE],
     [name |-> "is_admin", mutates |-> FALSE, guarded |-> TRUE, rolls_back |-> FALSE],
     [name |-> "delete_all_expenses", mutates |-> TRUE, guarded |-> TRUE, rolls_back |-> FALSE]}

\* the connection when control leaves the operation
storage_operation(o, fault) ==
    LET body == connect_execute_commit(fault, o.mutates)
    IN  IF o.guarded
        THEN finally_clause(except_clause(body, o.rolls_back))
        ELSE close_statement(body)

\* one storage operation from its connect to the moment control leaves it;
\* call.handles counts the handles open between operations
StorageOperationCall ==
    /\ \E o \in StorageOperations, fault \in HandleFaults :
          LET s == storage_operation(o, fault)
          IN  /\ fault = "commit" => o.mutates
              /\ s.conn => call.handles < MaxHandles
              /\ call' = [CallOf("storage") EXCEPT !.name = o.name,
                             !.fault = fault, !.raised = s.raised,
                             !.handles = call.handles + (IF s.conn THEN 1 ELSE 0),
                             !.pending = call.pending \/ s.pending]
    /\ UNCHANGED <<widgets, now, admin_email, user_email, cookie, subscriptions, pc,
                   identity, log, granted, expenses, categories, conns, lock>>

\* the runtime finalises a connection object nothing refers to any more
\* (the exception that carried its frame has been dropped)
ReleaseDropped ==
    /\ call.handles > 0
    /\ call' = [call EXCEPT !.op = "release", !.handles = 0, !.pending = FALSE]
    /\ UNCHANGED <<widgets, now, admin_email, user_email, cookie, subscriptions, pc,
                   identity, log, granted, expenses, categories, conns, lock>>

NextHandles ==
    \/ StorageOperationCall
    \/ ReleaseDropped

SpecHandles == Init /\ [][NextHandles]_vars

(***************************************************************************)
(* Calls of AuthManager._hash_password and AuthManager.checkpw.            *)
(***************************************************************************)
HashPasswordCall ==
    /\ \E p \in PasswordInputs, salt \in Salts, build \in Builds :
          LET h == _hash_password(encode(p), salt, build)
          IN  call' = [CallOf("hash") EXCEPT !.build = build,
                          !.password = encode(p), !.salt = salt,
                          !.raised = h.raised, !.hashed = h.hashed]
    /\ UNCHANGED <<widgets, now, admin_email, user_email, cookie, subscriptions, pc,
                   identity, log, granted, expenses, categories, conns, lock>>

CheckpwCall ==
    /\ \E p \in PasswordInputs, hashed \in HashedInputs, build \in Builds :
          call' = [CallOf("checkpw") EXCEPT !.build = build,
                      !.password = encode(p), !.hashed = hashed,
                      !.ok = checkpw(encode(p), hashed, build)]
    /\ UNCHANGED <<widgets, now, admin_email, user_email, cookie, subscriptions, pc,
                   identity, log, granted, expenses, categories, conns, lock>>

NextAuth ==
    \/ HashPasswordCall
    \/ CheckpwCall

SpecAuth == Init /\ [][NextAuth]_vars

(***************************************************************************)
(* Two callers of add_admin / grant_free_subscription at the same time,    *)
(* each on its own connection, statement by statement.  The SELECT of      *)
(* add_admin runs outside any transaction; the first writing statement     *)
(* takes the write lock, which the commit releases; a writer that finds    *)
(* the lock taken gives up after the timeout.                              *)
(***************************************************************************)
IdleAdmin ==
    [pc |-> "idle", op |-> "none", email |-> EmptyText, granted_by_admin |-> FALSE,
     found |-> FALSE, pending |-> None, ok |-> FALSE, cause |-> "none"]

\* conn = sqlite3.connect(...)
AdminConnect(p) ==
    /\ conns[p].pc = "idle"
    /\ \E op \in {"add_admin", "grant"}, granted_by_admin \in BOOLEAN :
          /\ op = "add_admin" => ~granted_by_admin
          /\ conns' = [conns EXCEPT ![p] =
                          [IdleAdmin EXCEPT !.pc = "connected", !.op = op,
                              !.email = EmailA,
                              !.granted_by_admin = granted_by_admin]]
    /\ UNCHANGED <<widgets, now, admin_email, user_email, cookie, subscriptions, pc,
                   identity, log, granted, expenses, categories, call, lock>>

\* add_admin, lines 592-593: SELECT email ... ; cursor.fetchone()
AdminSelect(p) ==
    /\ conns[p].pc = "connected" /\ conns[p].op = "add_admin"
    /\ conns' = [conns EXCEPT ![p].pc = "checked",
                    ![p].found = conns[p].email \in DOMAIN subscriptions]
    /\ UNCHANGED <<widgets, now, admin_email, user_email, cookie, subscriptions, pc,
                   identity, log, granted, expenses, categories, call, lock>>

\* the caller is about to run its writing statement
ReadyToWrite(p) ==
    \/ conns[p].op = "add_admin" /\ conns[p].pc = "checked"
    \/ conns[p].op = "grant" /\ conns[p].pc = "connected"

\* add_admin, lines 595 and 598: UPDATE the row found, or INSERT a new one
\* (a PRIMARY KEY conflict raises IntegrityError: rollback, return False);
\* grant_free_subscription, lines 567-570: INSERT OR REPLACE
AdminWrite(p) ==
    /\ ReadyToWrite(p)
    /\ write_lock_free(lock)
    /\ LET email == conns[p].email IN
       IF conns[p].op = "grant"
       THEN /\ conns' = [conns EXCEPT ![p].pc = "written",
                            ![p].pending =
                               Some([subscription_end |->
                                        Some(isoformat(now + TrialDays)),
                                     is_admin |-> IF conns[p].granted_by_admin
                                                  THEN 1 ELSE 0])]
            /\ lock' = Some(p)
       ELSE IF conns[p].found
       THEN /\ conns' = [conns EXCEPT ![p].pc = "written",
                            ![p].pending =
                               Some([subscriptions[email] EXCEPT !.is_admin = 1])]
            /\ lock' = Some(p)
       ELSE IF email \in DOMAIN subscriptions
       THEN /\ conns' = [conns EXCEPT ![p].pc = "done", ![p].ok = FALSE,
                            ![p].cause = "conflict"]
            /\ UNCHANGED lock
       ELSE /\ conns' = [conns EXCEPT ![p].pc = "written",
                            ![p].pending =
                               Some([subscription_end |-> None, is_admin |-> 1])]
            /\ lock' = Some(p)
    /\ UNCHANGED <<widgets, now, admin_email, user_email, cookie, subscriptions, pc,
                   identity, log, granted, expenses, categories, call>>

\* the write lock is not released within the timeout: OperationalError,
\* rollback, return False
AdminBusy(p) ==
    /\ ReadyToWrite(p)
    /\ ~write_lock_free(lock)
    /\ conns' = [conns EXCEPT ![p].pc = "done", ![p].ok = FALSE,
                    ![p].cause = "busy"]
    /\ UNCHANGED <<widgets, now, admin_email, user_email, cookie, subscriptions, pc,
                   identity, log, granted, expenses, categories, call, lock>>

\* conn.commit(); return True
AdminCommit(p) ==
    /\ conns[p].pc = "written"
    /\ subscriptions' = Upsert(subscriptions, conns[p].email, conns[p].pending[1])
    /\ lock' = None
    /\ conns' = [conns EXCEPT ![p].pc = "done", ![p].ok = TRUE]
    /\ UNCHANGED <<widgets, now, admin_email, user_email, cookie, pc,
                   identity, log, granted, expenses, categories, call>>

InitAdmins ==
    /\ now = 0
    /\ admin_email = None
    /\ user_email = None
    /\ cookie = None
    /\ subscriptions = NoRows
    /\ pc = "resolve"
    /\ identity = Unresolved
    /\ log = NoLog
    /\ granted = NoRows
    /\ categories = init_database(<<>>, FALSE).categories
    /\ conns = [p \in Procs |-> IdleAdmin]
    /\ lock = None
    /\ widgets = NoWidgets
    /\ expenses = <<>>
    /\ call = NoCall

NextAdmins ==
    \E p \in Procs :
        \/ AdminConnect(p)
        \/ AdminSelect(p)
        \/ AdminWrite(p)
        \/ AdminBusy(p)
        \/ AdminCommit(p)

SpecAdmins == InitAdmins /\ [][NextAdmins]_vars

(***************************************************************************)
(* An administrator's session over a filled expenses table, with the       *)
(* widgets of the data tab as Streamlit runs them.                         *)
(***************************************************************************)
WipeStores ==
    {add_expense(<<>>, x, FALSE).rows : x \in RegularExpenses}
      \cup {add_expense(add_expense(<<>>, x, FALSE).rows, y, FALSE).rows :
                x \in RegularExpenses, y \in RegularExpenses}

InitWipe ==
    /\ now = 0
    /\ admin_email = Some(AdminAccount)
    /\ user_email = None
    /\ cookie = None
    /\ subscriptions = NoRows
    /\ pc = "resolve"
    /\ identity = Unresolved
    /\ log = NoLog
    /\ granted = NoRows
    /\ categories = init_database(<<>>, FALSE).categories
    /\ conns = [p \in Procs |-> Idle]
    /\ lock = None
    /\ widgets = NoWidgets
    /\ expenses \in WipeStores
    /\ call = NoCall

NextWipe ==
    \/ Resolve
    \/ WipeButtonClick
    \/ WipeCheckboxTick
    \/ AdminRerun

SpecWipe == InitWipe /\ [][NextWipe]_vars

NextStore ==
    \/ AddExpenseCall
    \/ GetExpensesCall
    \/ GetCategoriesCall
    \/ DeleteExpenseCall
    \/ InitDatabaseCall

SpecStore == Init /\ [][NextStore]_vars

(***************************************************************************)
(* Two callers of delete_expense at the same time.                         *)
(***************************************************************************)
NextConc ==
    \E p \in Procs :
        \/ DeleteConnect(p)
        \/ DeleteExecute(p)
        \/ DeleteBusy(p)
        \/ DeleteCommit(p)

SpecConc == InitConc /\ [][NextConc]_vars

TypeOK ==
    /\ now \in Instants
    /\ pc \in {"resolve", "page"}
    /\ admin_email \in {None, Some(AdminAccount)}

(***************************************************************************)
(* Vocabulary of the properties.                                           *)
(***************************************************************************)
Times == 0..99

\* c holds a token email|ISO8601(t) whose email part is E
WellFormedToken(c, E, t) ==
    /\ c # None
    /\ ~HasSep(E)
    /\ c[1].val = E \o <<Sep>> \o isoformat(t)

\* c holds a token with no separator, or whose part after the first
\* separator is not a timestamp
MalformedToken(c) ==
    /\ c # None
    /\ \/ ~HasSep(c[1].val)
       \/ \A t \in Times :
             SubSeq(c[1].val, FirstSep(c[1].val) + 1, Len(c[1].val)) # isoformat(t)

\* a row exists for e, it has a subscription end, and t is strictly before it
ActiveAt(subs, e, t) ==
    /\ e \in DOMAIN subs
    /\ subs[e].subscription_end # None
    /\ \E x \in Times : subs[e].subscription_end[1] = isoformat(x) /\ t < x

EmptySessionResolve ==
    log.op = "resolve" /\ log.admin0 = None /\ log.user0 = None

(***************************************************************************)
(* C1: a resolution cycle that starts with an empty session and reads a    *)
(* well-formed, unexpired token for email E consults isSubscribed(E); if   *)
(* it is true the session is bound to exactly E, the cycle yields          *)
(* SubscriberSession(E) and the token stays; if it is false the cycle      *)
(* yields Anonymous, binds no email and the token store holds no token.    *)
(***************************************************************************)
C1_TokenResolution ==
    \A E \in Emails, t \in Times :
        (EmptySessionResolve /\ ~log.readFault
            /\ WellFormedToken(log.cookie0, E, t) /\ now < t)
        => /\ log.checked
           /\ IF is_subscribed(subscriptions, E, now, log.dbFault).result
              THEN /\ user_email = Some(E)
                   /\ identity = Subscriber(E)
                   /\ cookie = log.cookie0
              ELSE /\ user_email = None
                   /\ identity = Anonymous
                   /\ cookie = None

C1_Witness ==
    /\ EmptySessionResolve /\ ~log.readFault
    /\ \E t \in Times : WellFormedToken(log.cookie0, EmailA, t) /\ now < t
    /\ user_email = Some(EmailA)
    /\ identity = Subscriber(EmailA)
    /\ cookie # None

C1_WitnessStale ==
    /\ EmptySessionResolve /\ ~log.readFault
    /\ \E t \in Times : WellFormedToken(log.cookie0, EmailA, t) /\ now < t
    /\ ~ActiveAt(subscriptions, EmailA, now)
    /\ identity = Anonymous
    /\ cookie = None

(***************************************************************************)
(* C2: a resolution cycle that starts with the administrator flag set      *)
(* yields AdministratorSession and neither reads the token, nor checks     *)
(* entitlement, nor binds an email, nor deletes the token.                 *)
(***************************************************************************)
C2_AdminTerminal ==
    (log.op = "resolve" /\ log.admin0 # None)
    => /\ identity = Administrator
       /\ ~(log.read /\ log.cookie0 # None)
       /\ ~log.checked
       /\ user_email = log.user0
       /\ cookie = log.cookie0

(***************************************************************************)
(* C3: with no administrator flag and an email E already bound, the cycle  *)
(* yields SubscriberSession(E) without checking entitlement, also when the *)
(* subscription of E has lapsed, and the token store is neither read nor   *)
(* modified.                                                               *)
(***************************************************************************)
C3_BoundSession ==
    (log.op = "resolve" /\ log.admin0 = None /\ log.user0 # None)
    => /\ identity = Subscriber(log.user0[1])
       /\ user_email = log.user0
       /\ ~log.checked
       /\ ~log.read
       /\ cookie = log.cookie0

C3_Witness ==
    /\ log.op = "resolve" /\ log.admin0 = None /\ log.user0 = Some(EmailA)
    /\ ~ActiveAt(subscriptions, EmailA, now)
    /\ cookie # None
    /\ identity = Subscriber(EmailA)

(***************************************************************************)
(* C4: with an empty session, reading a well-formed token whose expiry t   *)
(* satisfies now >= t (the boundary now = t included) deletes the token,   *)
(* never consults isSubscribed, binds no email and yields Anonymous, even  *)
(* when the email's subscription is still active.                          *)
(***************************************************************************)
C4_ExpiredToken ==
    \A E \in Emails \cup {EmptyText}, t \in Times :
        (EmptySessionResolve /\ ~log.readFault
            /\ WellFormedToken(log.cookie0, E, t) /\ now >= t)
        => /\ cookie = None
           /\ ~log.checked
           /\ user_email = None
           /\ identity = Anonymous

C4_Witness ==
    /\ EmptySessionResolve /\ ~log.readFault
    /\ WellFormedToken(log.cookie0, EmailA, now)
    /\ ActiveAt(subscriptions, EmailA, now)
    /\ cookie = None
    /\ identity = Anonymous

(***************************************************************************)
(* C5: with an empty session and a malformed token (no separator, or an    *)
(* expiry part that is not a timestamp) resolution raises nothing, never   *)
(* consults isSubscribed, binds no email and yields Anonymous.             *)
(***************************************************************************)
C5_MalformedToken ==
    (EmptySessionResolve /\ MalformedToken(log.cookie0))
    => /\ ~log.escaped
       /\ ~log.checked
       /\ user_email = None
       /\ identity = Anonymous

C5_Witness ==
    /\ EmptySessionResolve /\ ~log.readFault
    /\ log.cookie0 # None
    /\ log.cookie0[1].val = EmailA
    /\ ActiveAt(subscriptions, EmailA, now)
    /\ identity = Anonymous

C5_WitnessBadExpiry ==
    /\ EmptySessionResolve /\ ~log.readFault
    /\ MalformedToken(log.cookie0)
    /\ HasSep(log.cookie0[1].val)
    /\ identity = Anonymous

(***************************************************************************)
(* C6: resolution never fails under storage errors.  When the read of the  *)
(* token store raises, the cycle ends as it does with no token: nothing is *)
(* checked, session and token store are unchanged, an empty session yields *)
(* Anonymous.  When the subscription lookup raises while a well-formed     *)
(* unexpired token is checked, the email counts as not subscribed: no      *)
(* email is bound, an empty session yields Anonymous.  No exception        *)
(* escapes in either case.                                                 *)
(***************************************************************************)
C6_StorageErrors ==
    /\ (log.op = "resolve" /\ log.readFault)
       => /\ ~log.escaped
          /\ ~log.checked
          /\ user_email = log.user0
          /\ cookie = log.cookie0
          /\ (log.admin0 = None => identity = Anonymous)
    /\ (log.op = "resolve" /\ log.checked /\ log.dbFault)
       => /\ ~log.escaped
          /\ ~log.subscribed
          /\ user_email = None
          /\ (log.admin0 = None => identity = Anonymous)

C6_Witness ==
    /\ EmptySessionResolve /\ log.checked /\ log.dbFault
    /\ \E t \in Times : WellFormedToken(log.cookie0, EmailA, t) /\ now < t
    /\ ActiveAt(subscriptions, EmailA, now)
    /\ identity = Anonymous

C6_WitnessRead ==
    /\ EmptySessionResolve /\ log.readFault
    /\ \E t \in Times : WellFormedToken(log.cookie0, EmailA, t) /\ now < t
    /\ ActiveAt(subscriptions, EmailA, now)
    /\ identity = Anonymous
    /\ cookie = log.cookie0

(***************************************************************************)
(* C7: the token written for any email E (one containing the separator     *)
(* included) is E|ISO8601(now + ttl), and reading it back at any time      *)
(* before now + ttl gives exactly the email E.                             *)
(***************************************************************************)
C7_TokenRoundTrip ==
    (log.op = "trial" /\ log.ok)
    => /\ cookie = CookieSet(log.email \o <<Sep>> \o isoformat(now + DefaultCookieDays),
                             now + DefaultCookieDays)
       /\ \A t \in Instants :
             (now <= t /\ t < now + DefaultCookieDays)
             => get_auth_cookie(cookie, t, FALSE).email = Some(log.email)

(***************************************************************************)
(* C8: every call of revokeLongLivedToken leaves the token store without a *)
(* token, whatever it held (well-formed, malformed, expired, nothing); no  *)
(* exception escapes, and neither the session nor the subscription records *)
(* are changed by it (the logout handler itself unbinds the email before   *)
(* the call).                                                              *)
(***************************************************************************)
C8_Revoke ==
    [][log'.revoked
       => /\ cookie' = None
          /\ ~log'.escaped
          /\ subscriptions' = subscriptions
          /\ admin_email' = admin_email
          /\ (log'.op = "resolve" => user_email' = user_email)
          /\ (log'.op = "logout" => user_email' = None)]_vars

C8_Witness ==
    /\ log.op = "logout" /\ log.revoked
    /\ MalformedToken(log.cookie0)
    /\ cookie = None

C8_WitnessAbsent ==
    /\ log.op = "logout" /\ log.revoked
    /\ log.cookie0 = None /\ log.delFault
    /\ cookie = None

C8_WitnessExpired ==
    /\ log.op = "logout" /\ log.revoked
    /\ \E t \in Times : WellFormedToken(log.cookie0, EmailA, t) /\ now >= t
    /\ cookie = None

(***************************************************************************)
(* C9: at every time and for every email, isSubscribed(email) is true      *)
(* exactly when a record exists for the email, has a subscription end, and *)
(* now is strictly before that end (the lookup itself succeeding); the     *)
(* answer resolution gets for the email of a token is that value.          *)
(***************************************************************************)
C9_IsSubscribed ==
    /\ \A e \in Emails \cup {EmptyText} :
          is_subscribed(subscriptions, e, now, FALSE).result
              <=> ActiveAt(subscriptions, e, now)
    /\ \A E \in Emails, t \in Times :
          (log.op = "resolve" /\ log.checked /\ ~log.dbFault
              /\ WellFormedToken(log.cookie0, E, t))
          => (log.subscribed <=> ActiveAt(subscriptions, E, now))

C9_Witness ==
    /\ log.op = "resolve" /\ log.checked /\ ~log.dbFault
    /\ ~log.subscribed
    /\ EmailA \in DOMAIN subscriptions
    /\ subscriptions[EmailA].subscription_end = Some(isoformat(now))
    /\ EmailB \in DOMAIN subscriptions
    /\ subscriptions[EmailB].subscription_end = None

(***************************************************************************)
(* C10: after a successful grantFreeSubscription(email, d, flag), d >= 1,  *)
(* made at time g, isSubscribed(email) is true at every time before g + d  *)
(* and false at every time from g + d on.                                  *)
(***************************************************************************)
C10_GrantWindow ==
    \A e \in DOMAIN granted :
        /\ granted[e].days >= 1
        /\ is_subscribed(subscriptions, e, now, FALSE).result
              <=> now < granted[e].at + granted[e].days

C10_Witness ==
    /\ EmailA \in DOMAIN granted
    /\ now = granted[EmailA].at + granted[EmailA].days
    /\ ~is_subscribed(subscriptions, EmailA, now, FALSE).result

C10_WitnessBefore ==
    /\ EmailA \in DOMAIN granted
    /\ now + 1 = granted[EmailA].at + granted[EmailA].days
    /\ granted[EmailA].days = TrialDays
    /\ is_subscribed(subscriptions, EmailA, now, FALSE).result

(***************************************************************************)
(* C11: after grant_free_subscription(email, d, flag) returns True the row *)
(* of email is exactly (subscription_end = now + d, is_admin = flag),      *)
(* whatever it held before: an administrator mark is reset when flag is    *)
(* False, a later end is replaced.  The rows of all other emails are       *)
(* unchanged.                                                              *)
(***************************************************************************)
C11_GrantOverwrite ==
    [][\A e \in Emails :
         (log'.op \in {"trial", "grant"} /\ log'.ok /\ log'.email = e)
         => /\ DOMAIN subscriptions' = (DOMAIN subscriptions) \cup {e}
            /\ subscriptions'[e].subscription_end # None
            /\ \E x \in Times :
                  /\ subscriptions'[e].subscription_end[1] = isoformat(x)
                  /\ x = now + log'.days
            /\ subscriptions'[e].is_admin = (IF log'.granted_by_admin THEN 1 ELSE 0)
            /\ is_admin(subscriptions', e, FALSE) = log'.granted_by_admin
            /\ \A o \in (DOMAIN subscriptions) \ {e} :
                  subscriptions'[o] = subscriptions[o]]_vars

\* a trial taken for an email whose row carried the administrator mark
C11_Witness ==
    /\ log.op = "trial" /\ log.ok /\ ~log.granted_by_admin
    /\ log.row0 # None
    /\ log.row0[1].is_admin = 1
    /\ subscriptions[log.email].is_admin = 0

\* a one-day grant over a row whose end was later
C11_WitnessLaterEnd ==
    /\ log.op = "grant" /\ log.ok /\ log.days = 1
    /\ log.row0 # None
    /\ log.row0[1].subscription_end = Some(isoformat(TrialDays))
    /\ subscriptions[log.email].subscription_end = Some(isoformat(now + 1))
    /\ \E o \in DOMAIN subscriptions : o # log.email

(***************************************************************************)
(* C12: add_admin(email) changes only the administrator mark.  An existing *)
(* row gets is_admin = 1 and keeps its subscription_end; with no row a new *)
(* one is created with is_admin = 1 and no subscription_end, so is_admin   *)
(* is True and is_subscribed is False for it.  Other rows are unchanged.   *)
(***************************************************************************)
C12_AddAdminFrame ==
    [][\A e \in Emails :
         (log'.op = "add_admin" /\ log'.ok /\ log'.email = e)
         => /\ DOMAIN subscriptions' = (DOMAIN subscriptions) \cup {e}
            /\ is_admin(subscriptions', e, FALSE)
            /\ IF e \in DOMAIN subscriptions
               THEN /\ subscriptions'[e].subscription_end
                          = subscriptions[e].subscription_end
                    /\ subscriptions'[e].is_admin = 1
               ELSE /\ subscriptions'[e] = [subscription_end |-> None, is_admin |-> 1]
                    /\ ~is_subscribed(subscriptions', e, now, FALSE).result
            /\ \A o \in (DOMAIN subscriptions) \ {e} :
                  subscriptions'[o] = subscriptions[o]]_vars

\* a subscriber with a running trial is made administrator
C12_Witness ==
    /\ log.op = "add_admin" /\ log.ok
    /\ log.row0 # None
    /\ log.row0[1].is_admin = 0
    /\ log.row0[1].subscription_end # None
    /\ subscriptions[log.email].subscription_end = log.row0[1].subscription_end
    /\ subscriptions[log.email].is_admin = 1
    /\ is_subscribed(subscriptions, log.email, now, FALSE).result

\* an email with no row is made administrator
C12_WitnessNewRow ==
    /\ log.op = "add_admin" /\ log.ok
    /\ log.row0 = None
    /\ is_admin(subscriptions, log.email, FALSE)
    /\ ~is_subscribed(subscriptions, log.email, now, FALSE).result

(***************************************************************************)
(* Vocabulary of the properties of the expense store.                      *)
(***************************************************************************)
\* the table rows holds a row with this id
HasId(rows, id) == \E i \in 1..Len(rows) : rows[i].id = id

\* rows with the rows of this id taken out
Without(rows, id) ==
    LET Other(row) == row.id # id IN SelectSeq(rows, Other)

\* the text is a calendar day written YYYY-MM-DD
IsCalendarDay(d) == d \in IsoDates

\* the year of a calendar day
YearOf(d) ==
    1000 * DigitValue(d[1]) + 100 * DigitValue(d[2])
        + 10 * DigitValue(d[3]) + DigitValue(d[4])

\* the last call was add_expense(r), and no storage error hit it
AddedWithoutError(r) ==
    call.op = "add" /\ call.expense = Some(r) /\ ~call.dbFault

\* a field is absent
Absent(field) == field = None

\* a text field (date, supplier) is the empty text
EmptyTextField(field) == field = Some(EmptyText)

\* the category is the empty text
EmptyCategory(field) == field = Some("")

(***************************************************************************)
(* C13: for every ExpenseRecord r (date a calendar day, category a text)   *)
(* with amount > 0, a non-empty supplier and an id not yet in the table,   *)
(* add_expense(r) returns True, and get_expenses() as well as              *)
(* get_expenses(year of r.date) then hold exactly one record with r's id,  *)
(* equal to r in every field.  Stated for calls no storage error hits.     *)
(***************************************************************************)
C13_RoundTrip ==
    \A r \in ExpenseInputs :
        (/\ AddedWithoutError(r)
         /\ ~Absent(r.date) /\ IsCalendarDay(r.date[1])
         /\ ~Absent(r.category)
         /\ ~Absent(r.amount) /\ r.amount[1] > 0
         /\ ~Absent(r.supplier) /\ r.supplier[1] # EmptyText
         /\ ~HasId(call.expenses0, r.id))
        => /\ call.ok
           /\ \A res \in {get_expenses(expenses, None, FALSE),
                          get_expenses(expenses, Some(YearOf(r.date[1])), FALSE)} :
                 /\ Cardinality({i \in 1..Len(res) : res[i].id = r.id}) = 1
                 /\ \A i \in 1..Len(res) : res[i].id = r.id => res[i] = r

\* a record that is not validated, added next to a row of another year
C13_Witness ==
    \E r \in ExpenseInputs :
        /\ AddedWithoutError(r) /\ call.ok
        /\ ~r.validated
        /\ r.amount = Some(5) /\ r.supplier = Some(<<"s">>)
        /\ Len(call.expenses0) = 1
        /\ call.expenses0[1].date = Some(DateA)
        /\ Len(get_expenses(expenses, Some(2024), FALSE)) = 1
        /\ get_expenses(expenses, Some(2024), FALSE)[1] = r

(***************************************************************************)
(* C14, as stated: add_expense(r) returns False and inserts nothing        *)
(* whenever r.id is already in the table, or date, amount, supplier or     *)
(* category is empty, that is absent or the empty text.                    *)
(***************************************************************************)
C14_RejectsEmpty ==
    \A r \in ExpenseInputs :
        (/\ call.op = "add" /\ call.expense = Some(r)
         /\ \/ HasId(call.expenses0, r.id)
            \/ Absent(r.date) \/ EmptyTextField(r.date)
            \/ Absent(r.amount)
            \/ Absent(r.supplier) \/ EmptyTextField(r.supplier)
            \/ Absent(r.category) \/ EmptyCategory(r.category))
        => /\ ~call.ok
           /\ expenses = call.expenses0

(***************************************************************************)
(* C14, amended: add_expense(r) returns False and inserts nothing whenever *)
(* r.id is already in the table, or date, amount, supplier or category is  *)
(* absent (None).  An empty text is a value: a record that has a new id    *)
(* and no absent field is inserted, also when supplier, category or date   *)
(* is the empty text (unless a storage error hits the call).               *)
(***************************************************************************)
C14_RejectsAbsent ==
    \A r \in ExpenseInputs :
        (call.op = "add" /\ call.expense = Some(r))
        => IF \/ HasId(call.expenses0, r.id)
              \/ Absent(r.date) \/ Absent(r.amount)
              \/ Absent(r.supplier) \/ Absent(r.category)
           THEN ~call.ok /\ expenses = call.expenses0
           ELSE call.dbFault
                \/ (call.ok /\ Len(expenses) = Len(call.expenses0) + 1
                            /\ HasId(expenses, r.id))

\* an id that is already in the table is refused
C14_Witness ==
    \E r \in ExpenseInputs :
        /\ AddedWithoutError(r)
        /\ HasId(call.expenses0, r.id)
        /\ ~call.ok
        /\ expenses = call.expenses0

\* an absent category is refused
C14_WitnessAbsent ==
    \E r \in ExpenseInputs :
        /\ AddedWithoutError(r)
        /\ ~HasId(call.expenses0, r.id)
        /\ Absent(r.category)
        /\ ~call.ok
        /\ expenses = call.expenses0

\* an empty supplier is accepted
C14_WitnessEmptyText ==
    \E r \in ExpenseInputs :
        /\ AddedWithoutError(r)
        /\ EmptyTextField(r.supplier)
        /\ call.ok
        /\ HasId(expenses, r.id)

(***************************************************************************)
(* C15: whenever add_expense returns False, get_expenses() shows the same  *)
(* rows as before the call (a row that held the id keeps its values, no    *)
(* partial row appears), and the subscriptions and categories tables are   *)
(* unchanged.                                                              *)
(***************************************************************************)
C15_FailedAddFrame ==
    [][(call'.op = "add" /\ ~call'.ok)
       => /\ expenses' = expenses
          /\ get_expenses(expenses', None, FALSE) = get_expenses(expenses, None, FALSE)
          /\ subscriptions' = subscriptions
          /\ categories' = categories]_vars

\* a second record with the id of a row: the row keeps its own date
C15_Witness ==
    \E r \in ExpenseInputs :
        /\ AddedWithoutError(r) /\ ~call.ok
        /\ \E i \in 1..Len(expenses) :
              expenses[i].id = r.id /\ expenses[i].date # r.date
        /\ expenses = call.expenses0

\* a record refused for its absent supplier
C15_WitnessAbsent ==
    \E r \in ExpenseInputs :
        /\ AddedWithoutError(r) /\ ~call.ok
        /\ Absent(r.supplier)
        /\ ~HasId(expenses, r.id)
        /\ Len(expenses) = 1

\* a storage error
C15_WitnessFault ==
    /\ call.op = "add" /\ call.dbFault /\ ~call.ok
    /\ expenses = call.expenses0
    /\ Len(expenses) = 1

(***************************************************************************)
(* C16: delete_expense(id) returns True exactly when a row with that id is *)
(* in the table, and then removes that row and no other; when no such row  *)
(* is in the table (never added, or already deleted) it returns False and  *)
(* changes nothing.  So of the deletes of one id with no add_expense of    *)
(* that id in between, only the first returns True.  Stated for calls no   *)
(* storage error hits.                                                     *)
(***************************************************************************)
C16_DeleteOnce ==
    [][(call'.op = "delete" /\ ~call'.dbFault)
       => /\ call'.ok = HasId(expenses, call'.expense_id)
          /\ expenses' = Without(expenses, call'.expense_id)
          /\ Len(expenses) - Len(expenses') = (IF call'.ok THEN 1 ELSE 0)
          /\ ~call'.ok => expenses' = expenses
          /\ (/\ call.op = "delete" /\ ~call.dbFault
              /\ call.expense_id = call'.expense_id)
             => ~call'.ok /\ expenses' = expenses
          /\ subscriptions' = subscriptions /\ categories' = categories]_vars

\* the first delete of a row that has a neighbour
C16_Witness ==
    /\ call.op = "delete" /\ ~call.dbFault /\ call.ok
    /\ Len(call.expenses0) = 2
    /\ HasId(call.expenses0, call.expense_id)
    /\ Len(expenses) = 1
    /\ ~HasId(expenses, call.expense_id)

\* a delete of an id that is not in the table, which holds another row
C16_WitnessAbsent ==
    /\ call.op = "delete" /\ ~call.dbFault /\ ~call.ok
    /\ ~HasId(call.expenses0, call.expense_id)
    /\ Len(expenses) = 1
    /\ expenses = call.expenses0

(***************************************************************************)
(* C17: for every table and every integer year y, get_expenses(y) returns  *)
(* exactly the rows whose date lies in calendar year y, newest date first, *)
(* and the empty list when there is none; get_expenses() returns every     *)
(* row, newest date first.                                                 *)
(***************************************************************************)
C17_YearFilter ==
    (call.op = "get" /\ ~call.dbFault)
    => LET res == call.result
           InYear(row) == IF call.year = None THEN TRUE
                          ELSE /\ IsCalendarDay(row.date[1])
                               /\ YearOf(row.date[1]) = call.year[1]
       IN  /\ {res[i].id : i \in 1..Len(res)}
                = {expenses[i].id : i \in {j \in 1..Len(expenses) : InYear(expenses[j])}}
           /\ Len(res) = Cardinality({j \in 1..Len(expenses) : InYear(expenses[j])})
           /\ \A i \in 1..Len(res) : \A j \in (i + 1)..Len(res) :
                 ~TextLess(res[i].date[1], res[j].date[1])

(***************************************************************************)
(* C18: the bulk wipe of the expenses runs only in a rerun whose identity  *)
(* is Administrator and in which both confirmations, the button and the    *)
(* checkbox, are active; when it runs (and no storage error hits it) it    *)
(* removes every expense row, and it changes no subscription or category   *)
(* row.  In every other rerun at most one expense row is removed, the one  *)
(* named by a delete_expense call.                                         *)
(***************************************************************************)
C18_WipeGuard ==
    [][LET WipeRan == log'.op = "wipe" /\ call'.op = "wipe" IN
       /\ WipeRan
          => /\ identity = Administrator
             /\ log'.button /\ log'.checkbox
             /\ expenses' = IF call'.ok THEN <<>> ELSE expenses
             /\ call'.ok = ~call'.dbFault
             /\ subscriptions' = subscriptions
             /\ categories' = categories
       /\ ~WipeRan
          => /\ Len(expenses) - Len(expenses') <= 1
             /\ Len(expenses') < Len(expenses)
                => /\ call'.op = "delete"
                   /\ expenses' = Without(expenses, call'.expense_id)
                   /\ identity.kind = "Subscriber"]_vars

\* the administrator wipes a table of two rows; subscriptions stay
C18_Witness ==
    /\ log.op = "wipe" /\ log.button /\ log.checkbox
    /\ call.op = "wipe" /\ call.ok
    /\ Len(call.expenses0) = 2
    /\ expenses = <<>>
    /\ admin_email # None
    /\ DOMAIN subscriptions # {}
    /\ Len(categories) = 10

\* the button without the checkbox: nothing is removed
C18_WitnessUnconfirmed ==
    /\ log.op = "wipe" /\ log.button /\ ~log.checkbox
    /\ call.op = "none"
    /\ Len(expenses) = 2

\* a subscriber deletes one row on the dashboard
C18_WitnessDelete ==
    /\ log.op = "dashboard"
    /\ call.op = "delete" /\ call.ok
    /\ Len(call.expenses0) = 2
    /\ Len(expenses) = 1

(***************************************************************************)
(* C19: when two callers run delete_expense(id) at the same time for an id *)
(* that is in the table, then in every interleaving exactly one of them    *)
(* returns True and the other False, the row is gone afterwards, and every *)
(* other row is unchanged.                                                 *)
(***************************************************************************)
C19_ConcurrentDelete ==
    \A id \in Ids :
        (/\ \A p \in Procs : conns[p].pc = "done" /\ conns[p].expense_id = id
         /\ HasId(call.expenses0, id))
        => /\ Cardinality({p \in Procs : conns[p].ok}) = 1
           /\ ~HasId(expenses, id)
           /\ expenses = Without(call.expenses0, id)

\* both callers have returned from deleting a row that had a neighbour
C19_Witness ==
    \E id \in Ids :
        /\ \A p \in Procs : conns[p].pc = "done" /\ conns[p].expense_id = id
        /\ HasId(call.expenses0, id)
        /\ Len(call.expenses0) = 2
        /\ Len(expenses) = 1
        /\ conns[2].ok /\ ~conns[1].ok

\* the second caller waits for the first one's commit and finds no row
C19_WitnessWaited ==
    \E id \in Ids :
        /\ \A p \in Procs : conns[p].expense_id = id
        /\ HasId(call.expenses0, id)
        /\ conns[1].pc = "done" /\ conns[1].ok
        /\ conns[2].pc = "executed" /\ conns[2].rows_affected = 0
        /\ lock = Some(2)

(***************************************************************************)
(* C20: init_database() is idempotent and keeps the data: every call       *)
(* leaves each expense and subscription row unchanged and the categories   *)
(* table holding each of the ten default pairs exactly once; a call after  *)
(* the first changes nothing; a uniqueness conflict while seeding is       *)
(* ignored, not reported.                                                  *)
(***************************************************************************)
C20_InitIdempotent ==
    [][(call'.op = "init")
       => /\ expenses' = expenses
          /\ subscriptions' = subscriptions
          /\ \A k \in 1..Len(default_categories) :
                Cardinality({i \in 1..Len(categories') :
                               /\ categories'[i].name_fr = default_categories[k][1]
                               /\ categories'[i].name_se = default_categories[k][2]}) = 1
          /\ Len(categories') = Len(default_categories)
          /\ categories' = categories
          /\ call'.raised => call'.dbFault]_vars

\* a second initialisation over a table that holds expenses
C20_Witness ==
    /\ call.op = "init" /\ ~call.dbFault /\ ~call.raised
    /\ Len(expenses) = 2
    /\ expenses = call.expenses0
    /\ Len(categories) = 10
    /\ categories[4].name_fr = "Électricité" /\ categories[4].name_se = "El"
    /\ categories[10].id = 10

(***************************************************************************)
(* C21: get_categories(lang) returns the names of all stored categories in *)
(* the requested language in ascending lexicographic order; when the       *)
(* storage read fails it raises nothing and returns the fixed three-name   *)
(* fallback list of that language.                                         *)
(***************************************************************************)
C21_Categories ==
    (call.op = "categories")
    => /\ ~call.raised
       /\ IF call.dbFault
          THEN call.names = IF call.lang = "fr"
                            THEN <<"Fournitures", "Salaire", "Location">>
                            ELSE <<"Förbrukningsmaterial", "Lön", "Hyra">>
          ELSE /\ Len(call.names) = Len(categories)
               /\ {call.names[i] : i \in 1..Len(call.names)}
                     = {IF call.lang = "fr" THEN categories[i].name_fr
                        ELSE categories[i].name_se : i \in 1..Len(categories)}
               /\ \A i \in 1..Len(call.names) : \A j \in (i + 1)..Len(call.names) :
                     NameLess(call.names[i], call.names[j])

\* the French names: the table holds Électricité fourth, the list has it last
C21_Witness ==
    /\ call.op = "categories" /\ ~call.dbFault /\ call.lang = "fr"
    /\ categories[4].name_fr = "Électricité"
    /\ Len(call.names) = 10
    /\ call.names[1] = "Assurance"
    /\ call.names[10] = "Électricité"

\* the read fails: the Swedish fallback
C21_WitnessFallback ==
    /\ call.op = "categories" /\ call.dbFault /\ call.lang = "se"
    /\ ~call.raised
    /\ call.names = <<"Förbrukningsmaterial", "Lön", "Hyra">>

(***************************************************************************)
(* C22.  The text is an output of _hash_password on the build: some        *)
(* password and some salt give it.  Digests being collision-free, the      *)
(* password and the salt can be read off the digest's argument.            *)
(***************************************************************************)
IsSuffix(t, b) == Len(t) <= Len(b) /\ LastBytes(b, Len(t)) = t
IsHashOutput(h, build) ==
    /\ h.stray = 0 /\ h.padding_ok
    /\ Len(h.payload) = DigestSize + SaltSize
    /\ IF build = "fallback"
       THEN /\ h.format = "b64"
            /\ LET salt == LastBytes(h.payload, SaltSize)
                   combined == h.payload[1].d
               IN  /\ FirstBytes(h.payload, DigestSize) = sha256(combined)
                   /\ IsSuffix(DemoSaltKey \o salt, combined)
       ELSE /\ h.format = "bcrypt"
            /\ LET salt == FirstBytes(h.payload, SaltSize)
                   hashedBytes == h.payload[SaltSize + 1].d
               IN  /\ LastBytes(h.payload, DigestSize) = sha256(hashedBytes)
                   /\ Len(hashedBytes) <= SaltSize + BcryptMaxBytes
                   /\ FirstBytes(hashedBytes, SaltSize) = salt

\* verify(p, hash(p)) is true
C22_VerifiesOwnHash ==
    call.op = "checkpw" =>
        \A salt \in Salts :
            LET h == _hash_password(call.password, salt, call.build)
            IN  ~h.raised /\ h.hashed = call.hashed => call.ok
\* verify(q, hash(p)) is false for q # p
C22_RejectsOtherPassword ==
    call.op = "checkpw" =>
        \A q \in PasswordInputs, salt \in Salts :
            LET h == _hash_password(encode(q), salt, call.build)
            IN  /\ ~h.raised /\ h.hashed = call.hashed
                /\ encode(q) # call.password
                => ~call.ok
\* a text that is not an output of hash does not verify
C22_RejectsForeignText ==
    call.op = "checkpw" /\ ~IsHashOutput(call.hashed, call.build) => ~call.ok
\* hashing a password raises nothing
C22_HashNeverRaises == call.op = "hash" => ~call.raised

\* C22: on either hashing path hashing raises nothing, verify(p, hash(p)) is
\* true for every password p, verify(q, hash(p)) is false for every q # p,
\* and a text that is not an output of hash never verifies.
C22_HashVerify ==
    /\ C22_HashNeverRaises
    /\ C22_VerifiesOwnHash
    /\ C22_RejectsOtherPassword
    /\ C22_RejectsForeignText

(***************************************************************************)
(* C23.  The rows of the expense table in the states the pages reach.      *)
(***************************************************************************)
RowsValid ==
    /\ \A i \in 1..Len(expenses) :
          expenses[i].amount # None /\ expenses[i].amount[1] > 0
    /\ \A i, j \in 1..Len(expenses) : expenses[i].id = expenses[j].id => i = j

RowsFrame ==
    /\ \A i \in 1..Len(expenses) :
          \/ \E j \in 1..Len(expenses') : expenses'[j] = expenses[i]
          \/ /\ ~HasId(expenses', expenses[i].id)
             /\ log'.op \in {"dashboard", "wipe"}
             /\ call'.op \in {"delete", "wipe"}
    /\ \A j \in 1..Len(expenses') :
          \/ \E i \in 1..Len(expenses) : expenses[i] = expenses'[j]
          \/ /\ ~HasId(expenses, expenses'[j].id)
             /\ log'.op = "import" /\ call'.op = "add"

\* C23: in every state the pages reach every row of the expense table has
\* an amount above zero and no two rows share an id; a row that stays in
\* the table keeps all its fields; a row appears only in an add_expense step
\* and disappears only in a delete_expense step or in the bulk wipe.
C23_StoreInvariants == [](RowsValid) /\ [][RowsFrame]_vars

\* two rows are stored, the second by the import page
C23_Witness ==
    /\ Len(expenses) = 2 /\ call.op = "add" /\ call.ok /\ log.op = "import"
    /\ Len(call.expenses0) = 1
\* the import page offered a different record under a stored id: refused,
\* the stored row is as it was
C23_WitnessSameId ==
    /\ call.op = "add" /\ ~call.ok /\ ~call.dbFault /\ log.op = "import"
    /\ \E i \in 1..Len(expenses) :
          /\ expenses[i].id = call.expense[1].id
          /\ expenses[i].date # call.expense[1].date
    /\ expenses = call.expenses0
\* one of two rows was deleted from the dashboard, the other is as it was
C23_WitnessDelete ==
    /\ call.op = "delete" /\ call.ok /\ log.op = "dashboard"
    /\ Len(call.expenses0) = 2 /\ Len(expenses) = 1

\* C24: every storage operation releases its handle before control leaves
\* it, on success and on every failure path, with any started change rolled
\* back: between operations no handle is open and no written change is
\* left uncommitted.
C24_HandlesReleased == call.handles = 0 /\ ~call.pending

(***************************************************************************)
(* C25.  The administrator flag of the session and the is_admin column.    *)
(***************************************************************************)
\* the entered password verifies against the administrator's hash
Verifies(password) ==
    \E build \in Builds :
        checkpw(encode(password), admin_password_hash(build), build)

AdminSetOnlyByLogin ==
    admin_email' # None /\ admin_email' # admin_email
        => /\ log'.op = "login" /\ Verifies(log'.password)
           /\ UNCHANGED <<subscriptions, cookie, user_email>>

\* the table with the is_admin column of the rows of the emails in S inverted
FlipAdmin(subs, S) ==
    [e \in DOMAIN subs |->
        IF e \in S THEN [subs[e] EXCEPT !.is_admin = 1 - subs[e].is_admin]
        ELSE subs[e]]

AdminColumnIgnored ==
    \A S \in SUBSET (DOMAIN subscriptions), readFault, dbFault, delFault \in BOOLEAN :
        LET r == main_resolution(user_email, cookie, subscriptions, now,
                                 readFault, dbFault, delFault)
            f == main_resolution(user_email, cookie, FlipAdmin(subscriptions, S),
                                 now, readFault, dbFault, delFault)
        IN  /\ f = r
            /\ main_dispatch(admin_email, f.user_email)
                 = main_dispatch(admin_email, r.user_email)

\* C25: the session's administrator flag becomes set only in a login step
\* whose entered password verifies; no token, trial, add_admin or grant step
\* sets it; and the is_admin column of the subscriptions table never changes
\* the identity the resolution yields.
C25_AdminOnlyByPassword == [][AdminSetOnlyByLogin]_vars /\ [](AdminColumnIgnored)

\* the administrator has just logged in with the password
C25_Witness ==
    /\ log.op = "login" /\ log.ok /\ admin_email = Some(AdminAccount)
    /\ log.admin0 = None
\* a wrong password was entered: the flag stays unset
C25_WitnessWrongPassword ==
    log.op = "login" /\ ~log.ok /\ admin_email = None /\ log.password # EmptyText
\* a resolution ran for an email whose row carries is_admin = 1: the session
\* is not an administrator's
C25_WitnessAdminRow ==
    /\ log.op = "resolve" /\ log.read /\ admin_email = None
    /\ \E e \in DOMAIN subscriptions :
          /\ subscriptions[e].is_admin = 1
          /\ (user_email = Some(e) \/ (log.checked /\ log.revoked))
    /\ identity # Administrator

(***************************************************************************)
(* C26.  The steps that bind an email to the session.                      *)
(***************************************************************************)
BoundByToken(E) ==
    /\ log'.op = "resolve" /\ log'.read /\ log'.checked /\ log'.subscribed
    /\ \E x \in Times : now < x /\ WellFormedToken(cookie, E, x)
    /\ is_subscribed(subscriptions, E, now, FALSE).result
    /\ UNCHANGED <<subscriptions, cookie>>

BoundByTrial(E) ==
    /\ log'.op = "trial" /\ log'.ok /\ log'.email = E
    /\ subscriptions'[E].subscription_end = Some(isoformat(now + TrialDays))
    /\ cookie' = set_auth_cookie(E, DefaultCookieDays, now)

BindOnlyWhenSubscribed ==
    user_email' # None /\ user_email' # user_email
        => LET E == user_email'[1]
           IN  /\ ActiveAt(subscriptions', E, now')
               /\ BoundByToken(E) \/ BoundByTrial(E)

FailedTrialBindsNothing ==
    log'.op = "trial" /\ ~log'.ok => UNCHANGED <<user_email, cookie, subscriptions>>

\* C26: an email E becomes bound to the session only in a step at which E
\* holds an unexpired subscription: a resolution that read a well-formed
\* unexpired token for E and found E subscribed, or a trial activation for
\* E that has just stored subscription_end = now + 30 days.  A trial whose
\* grant fails binds no email and issues no token.
C26_BindOnlyWhenSubscribed ==
    [][BindOnlyWhenSubscribed /\ FailedTrialBindsNothing]_vars

\* a resolution has just bound the email of the token
C26_Witness ==
    /\ log.op = "resolve" /\ log.subscribed /\ log.user0 = None
    /\ user_email # None /\ ActiveAt(subscriptions, user_email[1], now)
\* a trial activation has just bound its email
C26_WitnessTrial ==
    /\ log.op = "trial" /\ log.ok /\ user_email = Some(log.email)
    /\ cookie # None
\* a trial activation failed: nothing bound, no token
C26_WitnessFailedTrial ==
    /\ log.op = "trial" /\ ~log.ok /\ log.dbFault /\ log.email # EmptyText
    /\ user_email = None /\ cookie = None

(***************************************************************************)
(* C27.  The state right after a resolution cycle that met no storage      *)
(* error, and the cycle run once more from it at the same clock (the rerun *)
(* in between, Render, touches neither session nor token).                 *)
(***************************************************************************)
AfterCleanResolve ==
    /\ pc = "page" /\ log.op = "resolve"
    /\ ~log.readFault /\ ~log.dbFault /\ ~log.delFault

C27_WitnessRevoked ==
    /\ AfterCleanResolve /\ log.revoked /\ log.cookie0 # None /\ cookie = None
    /\ identity = Anonymous
\* the first cycle left a malformed token where it was
C27_WitnessMalformed ==
    /\ AfterCleanResolve /\ log.read /\ ~log.checked /\ MalformedToken(cookie)
    /\ identity = Anonymous

(***************************************************************************)
(* C28.  The subscriber's logout and the resolution cycle that follows it  *)
(* (every step of the environment in between resets log).                  *)
(***************************************************************************)
LogoutStep ==
    log'.op = "logout"
        => /\ user_email' = None /\ cookie' = None
           /\ UNCHANGED <<subscriptions, admin_email>>

CycleAfterLogout ==
    log.op = "logout" /\ log'.op = "resolve"
        => /\ identity' = Anonymous
           /\ user_email' = None /\ cookie' = None
           /\ UNCHANGED subscriptions

\* C28: after a subscriber's logout the session holds no bound email and
\* the token store no token, and the next resolution cycle yields Anonymous
\* even when the email's subscription is still active; the logout leaves
\* the subscription record as it was.
C28_Logout == [][LogoutStep /\ CycleAfterLogout]_vars

\* a subscriber with an active subscription and a token has just logged
\* out; the next cycle is about to run
C28_Witness ==
    /\ log.op = "logout" /\ log.user0 # None /\ log.cookie0 # None
    /\ ActiveAt(subscriptions, log.user0[1], now)
    /\ user_email = None /\ cookie = None /\ pc = "resolve"

\* C29: the bulk wipe is reachable: in an administrator's session over a
\* filled expenses table, a click on the wipe button followed by a tick of
\* the confirmation checkbox (each one rerun, the button reading true only
\* in the rerun of its own click) leaves the expenses table empty, unless a
\* storage error stops the DELETE.
C29_WipeReachable ==
    log.op = "wipe_tick" /\ log.checkbox /\ ~log.dbFault => expenses = <<>>

\* C30: add_admin's check-then-write is atomic: when two callers run
\* add_admin for the same unknown email, or add_admin and
\* grant_free_subscription, in any interleaving, an add_admin that returns
\* True has set is_admin itself, no add_admin returns False because the
\* other caller created the record first, and once a call has committed
\* exactly one record exists for the email.
C30_AddAdminAtomic ==
    /\ \A p \in Procs :
          conns[p].pc = "done" /\ conns[p].op = "add_admin"
              => /\ conns[p].ok => conns[p].pending # None
                                   /\ conns[p].pending[1].is_admin = 1
                 /\ ~conns[p].ok => conns[p].cause # "conflict"
    /\ (\E p \in Procs : conns[p].pc = "done" /\ conns[p].ok)
          => DOMAIN subscriptions = {EmailA}

(***************************************************************************)
(* C31.  The is_admin column after a grant, by the page that granted.      *)
(***************************************************************************)
\* the step stored a subscription for e from the administrator panel
PanelGranted(e) == log'.op = "grant" /\ log'.ok /\ log'.email = e
\* the step stored a self-activated trial for e
TrialGranted(e) == log'.op = "trial" /\ log'.ok /\ log'.email = e

\* C31: the stored is_admin flag follows the granting path: a subscription
\* granted from the administrator panel is stored with is_admin = 1 for the
\* recipient, a self-activated 30-day trial with is_admin = 0, also when the
\* email's row had is_admin = 1 before.
C31_FlagFollowsPath ==
    [][\A e \in Emails :
         /\ PanelGranted(e)
              => /\ e \in DOMAIN subscriptions'
                 /\ subscriptions'[e].is_admin = 1
                 /\ identity = Administrator
         /\ TrialGranted(e)
              => /\ e \in DOMAIN subscriptions'
                 /\ subscriptions'[e].is_admin = 0
                 /\ subscriptions'[e].subscription_end
                      = Some(isoformat(now + TrialDays))
                 /\ identity = Anonymous]_vars

\* the panel granted a subscription to an email whose row, written by its
\* own trial, had is_admin = 0: the row now has is_admin = 1
C31_Witness ==
    /\ log.op = "grant" /\ log.ok
    /\ log.row0 # None /\ log.row0[1].is_admin = 0
    /\ subscriptions[log.email].is_admin = 1
\* a trial was activated for an email that add_admin or a panel grant had
\* marked: the row now has is_admin = 0
C31_WitnessTrial ==
    /\ log.op = "trial" /\ log.ok /\ user_email = Some(log.email)
    /\ log.row0 # None /\ log.row0[1].is_admin = 1
    /\ subscriptions[log.email].is_admin = 0
    /\ subscriptions[log.email].subscription_end = Some(isoformat(now + TrialDays))

============================================================================
